---- MODULE Spec2Model ----
(***************************************************************************)
(* Model of the sf-ui-automation plugin: the BrowserManager lifecycle      *)
(* (connect / disconnect), the SetupApply.run batch orchestrator with its  *)
(* per-operation try/catch blocks, outer catch and finally, two runs that  *)
(* overlap in time, the SalesforceUI helpers and the steps of              *)
(* configureSessionSettings.                                               *)
(***************************************************************************)
EXTENDS Integers, Sequences, FiniteSets, TLC

\* ------------------------------------------------------------------ bounds
\* longest list section (sharingSettings, flows, orgWideEmails) of a document
MaxList == 2
\* largest number of operations of one batch document
MaxOps == 3
\* largest number of connect/disconnect calls made on one BrowserManager
MaxCalls == 4
\* largest number of SalesforceUI helper calls made on one page
MaxUiCalls == 2

\* entries of the sharingSettings list run one after the other
MaxEntries == 2
\* largest number of sf commands the deployment script runs
MaxExecs == 2

\* ------------------------------------------------------------------- state
VARIABLES
  pc,               \* where the command's run() is
  command,          \* which command runs: "apply", "session", "sharing", "flow"
  continueOnError,  \* flags['continue-on-error']
  config,           \* the parsed document, sections in document order
  ci, ei,           \* the block and the entry the run is at
  applied, failed,  \* the two result lists of run()
  attempted,        \* call-order capture: every automation call made
  error,            \* the error caught by the outer catch
  tryOutcome,       \* completion of the try/catch statement
  outcome,          \* completion of run() as its caller sees it
  connection,       \* org.getConnection() as read by connect
  session,          \* the SalesforceSession connect returned
  browser, page,    \* this.browser, this.page of the BrowserManager (0 = null)
  pageMarkers,      \* post-login markers in the document the page shows
  launched,         \* browsers launched so far (ids 1..launched)
  openBrowsers,     \* browsers launched and not closed
  closeLog,         \* every browser.close() call: browser and whether it resolved
  mgrLog,           \* every connect/disconnect call on the manager
  checked,          \* checked property of each checkbox of the page shown
  uiLog,            \* every helper call and wait made on the page, in order
  uiPc,             \* where configureSessionSettings is
  uiOptions,        \* the options configureSessionSettings was called with
  uiError,          \* the error configureSessionSettings rejected with
  managers,         \* of each of two concurrent runs: its position and the
                    \* browser and page fields of its own BrowserManager
  runLog,           \* every launch, page use and close of the concurrent runs
  screenshots,      \* the files BrowserManager.screenshot has written
  automation,       \* the SetupAutomations method running, and who called it
  steps,            \* the awaited calls the method has still to make
  boxes, inputs,    \* the checkboxes and the text controls of its page
  org,              \* the sharing settings the org holds for the object
  dialog,           \* the confirmation of a flow change: none, pending,
                    \* shown, confirmed
  finished,         \* the entries of the batch that are over
  sfdxLog           \* every runSfdxCommand call of the deployment script: what
                    \* the sf process did and how the call completed

runVars == <<pc, command, continueOnError, config, ci, ei, applied, failed,
             attempted, error, tryOutcome, outcome>>

mgrVars == <<connection, session, browser, page, pageMarkers, launched,
             openBrowsers, closeLog, mgrLog>>

uiVars == <<checked, uiLog, uiPc, uiOptions, uiError>>

\* state a run of one command on its own manager does not touch
pairVars == <<managers, runLog>>

shotVars == <<screenshots>>

protoVars == <<automation, steps, boxes, inputs, org, dialog, finished>>

deployVars == <<sfdxLog>>

\* the variables of the parts of the repository modelled apart from a run
moreVars == <<shotVars, protoVars, deployVars>>

otherVars == <<uiVars, pairVars, moreVars>>

vars == <<runVars, mgrVars, otherVars>>

\* ------------------------------------------------------- document values
\* names an entry of a list section can carry (objectName, flowApiName, displayName)
Names == {"A", "B"}

SingleKeys == {"sessionSettings", "einsteinActivityCapture", "omniChannel"}

ListKeys == {"sharingSettings", "flows", "orgWideEmails"}

\* the key orders in which the JSON document may be laid out
Layouts ==
  { <<"sessionSettings", "sharingSettings", "einsteinActivityCapture",
      "omniChannel", "flows", "orgWideEmails">>,
    <<"flows", "sharingSettings", "sessionSettings",
      "orgWideEmails", "einsteinActivityCapture", "omniChannel">> }

Absent == [shape |-> "absent", items |-> <<>>]

ObjectValues == {Absent, [shape |-> "object", items |-> <<>>]}

\* a truthy value that is not iterable, e.g. "flows": 1
NonList == [shape |-> "number", items |-> <<>>]

\* JSON.parse accepts any value for a list key: nothing checks its shape
ListValues ==
  {Absent, NonList} \cup
  {[shape |-> "list", items |-> l] : l \in UNION {[1..n -> Names] : n \in 0..MaxList}}

\* the sections of a SetupConfig, by key
SetupConfig ==
  [sessionSettings : ObjectValues, sharingSettings : ListValues,
   einsteinActivityCapture : ObjectValues, omniChannel : ObjectValues,
   flows : ListValues, orgWideEmails : ListValues]

\* JSON.parse of a document laid out as `layout`: the present sections in
\* document order
IsPresent(section) == section.shape # "absent"

Document(layout, c) ==
  SelectSeq([i \in 1..Len(layout) |->
               [key |-> layout[i], shape |-> c[layout[i]].shape,
                items |-> c[layout[i]].items]],
            IsPresent)

\* config.<key>: property lookup by key, undefined (Absent) when missing
Section(doc, key) ==
  IF \E i \in 1..Len(doc) : doc[i].key = key
  THEN LET i == CHOOSE j \in 1..Len(doc) : doc[j].key = key
       IN [shape |-> doc[i].shape, items |-> doc[i].items]
  ELSE Absent

\* if (config.<key>): objects and arrays (also empty ones) and non-zero
\* numbers are truthy
Truthy(section) == section.shape \in {"object", "list", "number"}

\* blocks visited in the order the document lists its sections
DocumentOrder == [i \in 1..Len(config) |-> config[i].key]

\* the sequence of if-blocks of SetupApply.run
CategoryOrder ==
  <<"sessionSettings", "sharingSettings", "einsteinActivityCapture",
    "omniChannel", "flows", "orgWideEmails">>

\* number of operations a section contributes
OpsOfSection(section) ==
  IF section.shape = "list" THEN Len(section.items)
  ELSE IF section.shape = "object" THEN 1 ELSE 0

RECURSIVE SumOps(_, _)
SumOps(doc, i) ==
  IF i > Len(doc) THEN 0
  ELSE OpsOfSection([shape |-> doc[i].shape, items |-> doc[i].items]) + SumOps(doc, i + 1)

TotalOps(doc) == SumOps(doc, 1)

\* a loop that stops one entry short
HasOpStoppingShort(doc, b, k) ==
  LET s == Section(doc, CategoryOrder[b])
  IN /\ Truthy(s)
     /\ IF s.shape = "list" THEN k < Len(s.items) ELSE s.shape = "object" /\ k = 1

\* is there an operation at entry k of block b
HasOp(doc, b, k) ==
  LET s == Section(doc, CategoryOrder[b])
  IN /\ Truthy(s)
     /\ IF s.shape = "list" THEN k <= Len(s.items) ELSE s.shape = "object" /\ k = 1

\* does the for..of statement of block b raise: the block is entered (the
\* value is truthy) and the value of a list key has no iterator
NotIterable(doc, b) ==
  LET s == Section(doc, CategoryOrder[b])
  IN /\ CategoryOrder[b] \in ListKeys
     /\ Truthy(s)
     /\ s.shape # "list"

\* the next operation, or the next for..of statement that raises, at or after
\* entry k of block b: absent sections and exhausted loops are passed over;
\* <<Len(CategoryOrder) + 1, 1>> is the summary
RECURSIVE SkipTo(_, _, _)
SkipTo(doc, b, k) ==
  IF b > Len(CategoryOrder) THEN <<Len(CategoryOrder) + 1, 1>>
  ELSE IF HasOp(doc, b, k) \/ (k = 1 /\ NotIterable(doc, b)) THEN <<b, k>>
  ELSE SkipTo(doc, b + 1, 1)

\* name of the entry an operation works on ("" for single-object sections)
EntryName(doc, b, k) ==
  LET s == Section(doc, CategoryOrder[b])
  IN IF s.shape = "list" THEN s.items[k] ELSE ""

\* label pushed to `applied`
\* a label that names the kind only
AppliedLabelWithoutName(key, name) ==
  CASE key = "sessionSettings" -> "Session Settings"
    [] key = "sharingSettings" -> "Sharing: "
    [] key = "einsteinActivityCapture" -> "Einstein Activity Capture"
    [] key = "omniChannel" -> "Omni-Channel"
    [] key = "flows" -> "Flow: "
    [] key = "orgWideEmails" -> "Org-Wide Email: "

\* label pushed to `applied`
AppliedLabel(key, name) ==
  CASE key = "sessionSettings" -> "Session Settings"
    [] key = "sharingSettings" -> "Sharing: " \o name
    [] key = "einsteinActivityCapture" -> "Einstein Activity Capture"
    [] key = "omniChannel" -> "Omni-Channel"
    [] key = "flows" -> "Flow: " \o name
    [] key = "orgWideEmails" -> "Org-Wide Email: " \o name

\* a failure entry that reuses the label pushed to `applied`
FailedPrefixSameAsApplied(key, name) == AppliedLabel(key, name)

\* prefix of the message pushed to `failed`
FailedPrefix(key, name) ==
  CASE key = "sessionSettings" -> "Session Settings"
    [] key = "sharingSettings" -> "Sharing " \o name
    [] key = "einsteinActivityCapture" -> "Einstein Activity Capture"
    [] key = "omniChannel" -> "Omni-Channel"
    [] key = "flows" -> "Flow " \o name
    [] key = "orgWideEmails" -> "Org-Wide Email " \o name

\* ---------------------------------------------------------- page values
\* the value of a property or parameter that was not given
Undefined == "<undefined>"

\* the checkboxes of the session settings form, by the id fragment of their
\* selector input[type="checkbox"][id*="..."]
Checkboxes == {"forceLogout", "lockIp", "httpOnly", "secureConnections"}

\* the sharing settings the org starts with
DefaultSharing == [internal |-> "Private", external |-> "Private", hierarchy |-> TRUE]

\* no method is running
NoAutomation == [kind |-> "", via |-> "", argv |-> {}]

\* the options object of configureSessionSettings is a function from the
\* fields it provides to their values; this one provides none
NoOptions == [f \in {} |-> TRUE]

\* --------------------------------------------------------------- errors
NoError == [origin |-> "none", at |-> 0, message |-> ""]

\* message of the error the automation for `key` raises when the first
\* control it waits for does not appear (puppeteer's TimeoutError)
OperationErrorMessage(key) ==
  "Waiting for selector " \o
  (CASE key \in {"sessionSettings", "session"} -> "button:has-text(Edit)"
     [] key \in {"sharingSettings", "sharing"} -> "tr:has-text(objectName)"
     [] key = "einsteinActivityCapture" -> "input[id*=activityCapture]"
     [] key = "omniChannel" -> "input[id*=enableOmni]"
     [] key \in {"flows", "flow"} -> "input[placeholder*=Search]"
     [] key = "orgWideEmails" -> "button:has-text(Add)") \o
  " failed: timeout exceeded"

\* error instanceof Error ? error.message : String(error)
ErrorMessage(e) == e.message

\* this.error(...) of the command: raises a new error carrying the text
CliError(text) == [origin |-> "cli", at |-> 0, message |-> text]

\* a catch block that re-throws whatever the flag says
ShouldRethrowAlways(continue) == TRUE

\* a catch block that never re-throws
ShouldRethrowNever(continue) == FALSE

\* if (!flags['continue-on-error']) throw error;
ShouldRethrow(continue) == ~continue


\* ------------------------------------------------------- BrowserManager
Url == "https://org.my.salesforce.com"

Token == "00Dxx!token"

Connections == [instanceUrl : {Undefined, "", Url}, accessToken : {Undefined, "", Token}]

\* !value of a string or undefined
Falsy(value) == value = Undefined \/ value = ""

\* a validation that rejects only when both credentials are missing
CredentialsBothMissing(conn) == Falsy(conn.instanceUrl) /\ Falsy(conn.accessToken)

\* if (!instanceUrl || !accessToken)
CredentialsMissing(conn) == Falsy(conn.instanceUrl) \/ Falsy(conn.accessToken)

\* post-login DOM markers: .slds-global-header, #phHeaderLogoImage
Markers == {"slds-global-header", "phHeaderLogoImage"}

IsLoggedIn(markers) ==
  "slds-global-header" \in markers \/ "phHeaderLogoImage" \in markers

\* what the browser does during connect: which step rejects, and the
\* markers of the page the front-door navigation lands on
ConnectEnvs ==
  {[fault |-> f, markers |-> {}] : f \in {"launch", "newPage", "goto"}} \cup
  {[fault |-> "none", markers |-> m] : m \in SUBSET Markers}

\* the error connect raises, NoError when it returns a session
ConnectError(conn, env) ==
  IF CredentialsMissing(conn)
  THEN [origin |-> "connect", at |-> 0,
        message |-> "Unable to get Salesforce session. Please authenticate first."]
  ELSE IF env.fault # "none"
  THEN [origin |-> "connect", at |-> 0, message |-> "puppeteer: " \o env.fault \o " failed"]
  ELSE IF ~IsLoggedIn(env.markers)
  THEN [origin |-> "connect", at |-> 0, message |-> "Failed to authenticate to Salesforce"]
  ELSE NoError

\* does connect get as far as puppeteer.launch returning a browser
Launches(conn, env) == ~CredentialsMissing(conn) /\ env.fault # "launch"

\* does connect get as far as browser.newPage returning a page
OpensPage(conn, env) == Launches(conn, env) /\ env.fault # "newPage"

\* a launch that hands out the browser that is already there
SharedBrowser(n) == 1

\* puppeteer.launch starts a browser of its own: the id of the browser
\* launched when n browsers were launched before
NewBrowser(n) == n + 1

\* the runs of commands that overlap in time
Runs == {1, 2}

NoSession == [browser |-> 0, page |-> 0, instanceUrl |-> "", accessToken |-> ""]

\* a disconnect that tests this.page
HasPageToClose(b, p) == p # 0

\* a disconnect that keeps this.browser after closing it
BrowserKeptAfterClose(b) == b

\* if (this.browser) of disconnect
HasBrowserToClose(b, p) == b # 0

\* this.browser = null after a close that resolved
BrowserAfterClose(b) == 0

NoResult == [success |-> FALSE, message |-> "", applied |-> <<>>, failed |-> <<>>]

NoOutcome == [kind |-> "none", error |-> NoError, result |-> NoResult]

Returned(result) == [kind |-> "return", error |-> NoError, result |-> result]

Thrown(e) == [kind |-> "throw", error |-> e, result |-> NoResult]

Init ==
  /\ pc = "start"
  /\ command = "none"
  /\ continueOnError = FALSE
  /\ config = <<>>
  /\ ci = 1
  /\ ei = 1
  /\ applied = <<>>
  /\ failed = <<>>
  /\ attempted = <<>>
  /\ error = NoError
  /\ tryOutcome = NoOutcome
  /\ outcome = NoOutcome
  /\ connection = [instanceUrl |-> Undefined, accessToken |-> Undefined]
  /\ session = NoSession
  /\ browser = 0
  /\ page = 0
  /\ pageMarkers = {}
  /\ launched = 0
  /\ openBrowsers = {}
  /\ closeLog = <<>>
  /\ mgrLog = <<>>
  /\ checked = [c \in Checkboxes |-> FALSE]
  /\ uiLog = <<>>
  /\ uiPc = "idle"
  /\ uiOptions = NoOptions
  /\ uiError = ""
  /\ managers = [r \in Runs |-> [pc |-> "connect", browser |-> 0, page |-> 0]]
  /\ runLog = <<>>
  /\ screenshots = <<>>
  /\ automation = NoAutomation
  /\ steps = <<>>
  /\ boxes = [c \in {} |-> FALSE]
  /\ inputs = [c \in {} |-> ""]
  /\ org = DefaultSharing
  /\ dialog = "none"
  /\ finished = <<>>
  /\ sfdxLog = <<>>

\* BrowserManager.connect under environment env
MgrConnect(conn, env) ==
  /\ connection' = conn
  /\ launched' = IF Launches(conn, env) THEN launched + 1 ELSE launched
  /\ openBrowsers' = IF Launches(conn, env) THEN openBrowsers \cup {NewBrowser(launched)}
                     ELSE openBrowsers
  /\ browser' = IF Launches(conn, env) THEN NewBrowser(launched) ELSE browser
  /\ page' = IF OpensPage(conn, env) THEN NewBrowser(launched) ELSE page
  /\ pageMarkers' = IF OpensPage(conn, env) /\ env.fault = "none" THEN env.markers
                    ELSE IF OpensPage(conn, env) THEN {} ELSE pageMarkers
  /\ session' = IF ConnectError(conn, env) = NoError
                THEN [browser |-> NewBrowser(launched), page |-> NewBrowser(launched),
                      instanceUrl |-> conn.instanceUrl, accessToken |-> conn.accessToken]
                ELSE session
  /\ mgrLog' = Append(mgrLog, [op |-> "connect", wasOpen |-> openBrowsers # {},
                               closes |-> 0,
                               threw |-> ConnectError(conn, env) # NoError])
  /\ UNCHANGED closeLog

\* the error of a browser.close() that rejects
CloseError == [origin |-> "close", at |-> 0, message |-> "Protocol error: Target closed"]

\* BrowserManager.disconnect; closeOk tells whether browser.close() resolves
MgrDisconnect(closeOk) ==
  /\ IF HasBrowserToClose(browser, page)
     THEN /\ closeLog' = Append(closeLog, [browser |-> browser, ok |-> closeOk])
          /\ IF closeOk
             THEN /\ openBrowsers' = openBrowsers \ {browser}
                  /\ browser' = BrowserAfterClose(browser)
                  /\ page' = 0
                  /\ pageMarkers' = {}
             ELSE UNCHANGED <<openBrowsers, browser, page, pageMarkers>>
     ELSE UNCHANGED <<closeLog, openBrowsers, browser, page, pageMarkers>>
  /\ mgrLog' = Append(mgrLog, [op |-> "disconnect", wasOpen |-> openBrowsers # {},
                               closes |-> IF HasBrowserToClose(browser, page) THEN 1 ELSE 0,
                               threw |-> HasBrowserToClose(browser, page) /\ ~closeOk])
  /\ UNCHANGED <<connection, session, launched>>

\* does this disconnect call raise
DisconnectThrows(closeOk) == HasBrowserToClose(browser, page) /\ ~closeOk

\* ------------------------------------------------------ SetupApply.run
\* flags parsed, configuration file read and parsed, manager constructed
Start ==
  /\ pc = "start"
  /\ \E layout \in Layouts, c \in SetupConfig, cont \in BOOLEAN :
       /\ TotalOps(Document(layout, c)) <= MaxOps
       /\ config' = Document(layout, c)
       /\ continueOnError' = cont
  /\ command' = "apply"
  /\ pc' = "connect"
  /\ UNCHANGED <<ci, ei, applied, failed, attempted, error, tryOutcome, outcome>>
  /\ UNCHANGED mgrVars
  /\ UNCHANGED otherVars

\* readFileSync or JSON.parse raises: run() rejects before a manager exists
StartUnreadable ==
  /\ pc = "start"
  /\ command' = "apply"
  /\ \E cont \in BOOLEAN : continueOnError' = cont
  /\ outcome' = Thrown([origin |-> "config", at |-> 0,
                        message |-> "Unexpected token in JSON"])
  /\ pc' = "done"
  /\ UNCHANGED <<config, ci, ei, applied, failed, attempted, error, tryOutcome>>
  /\ UNCHANGED mgrVars
  /\ UNCHANGED otherVars

\* the single-operation commands: ui config session, ui config sharing,
\* ui setup flow
SingleCommands == {"session", "sharing", "flow"}

StartSingle ==
  /\ pc = "start"
  /\ \E cmd \in SingleCommands : command' = cmd
  /\ pc' = "connect"
  /\ UNCHANGED <<continueOnError, config, ci, ei, applied, failed, attempted,
                 error, tryOutcome, outcome>>
  /\ UNCHANGED mgrVars
  /\ UNCHANGED otherVars

\* ui setup flow with neither --activate nor --deactivate
StartFlowWithoutAction ==
  /\ pc = "start"
  /\ command' = "flow"
  /\ outcome' = Thrown(CliError("You must specify either --activate or --deactivate"))
  /\ pc' = "done"
  /\ UNCHANGED <<continueOnError, config, ci, ei, applied, failed, attempted,
                 error, tryOutcome>>
  /\ UNCHANGED mgrVars
  /\ UNCHANGED otherVars

\* const session = await browserManager.connect(org)
Connect ==
  /\ pc = "connect"
  /\ \E conn \in Connections, env \in ConnectEnvs :
       /\ MgrConnect(conn, env)
       /\ IF ConnectError(conn, env) = NoError
          THEN /\ error' = error
               /\ IF command = "apply"
                  THEN LET pos == SkipTo(config, 1, 1)
                       IN /\ ci' = pos[1]
                          /\ ei' = pos[2]
                          /\ pc' = IF pos[1] > Len(CategoryOrder) THEN "summary" ELSE "ops"
                  ELSE /\ pc' = "single"
                       /\ UNCHANGED <<ci, ei>>
          ELSE /\ error' = ConnectError(conn, env)
               /\ pc' = "catch"
               /\ UNCHANGED <<ci, ei>>
  /\ UNCHANGED <<command, continueOnError, config, applied, failed, attempted,
                 tryOutcome, outcome>>
  /\ UNCHANGED otherVars

\* the error the automation call number n raises
OperationError(n, m) == [origin |-> "operation", at |-> n, message |-> m]

\* a block that pushes its label before the call and keeps it when the call
\* rejects
ApplyOperationKeepingLabel(key) ==
  /\ pc = "ops"
  /\ ci <= Len(CategoryOrder)
  /\ CategoryOrder[ci] = key
  /\ HasOp(config, ci, ei)
  /\ LET name == EntryName(config, ci, ei)
         n == Len(attempted) + 1
         next == SkipTo(config, ci, ei + 1)
     IN \/ \* the automation resolves
           /\ attempted' = Append(attempted, [key |-> key, index |-> ei, name |-> name,
                                              error |-> NoError])
           /\ applied' = Append(applied, AppliedLabel(key, name))
           /\ ci' = next[1]
           /\ ei' = next[2]
           /\ pc' = IF next[1] > Len(CategoryOrder) THEN "summary" ELSE "ops"
           /\ UNCHANGED <<failed, error>>
        \/ \* the automation rejects
           LET e == OperationError(n, OperationErrorMessage(key))
           IN   /\ attempted' = Append(attempted, [key |-> key, index |-> ei,
                                                   name |-> name, error |-> e])
                /\ failed' = Append(failed, FailedPrefix(key, name) \o ": " \o ErrorMessage(e))
                /\ IF ShouldRethrow(continueOnError)
                   THEN /\ error' = e
                        /\ pc' = "catch"
                        /\ UNCHANGED <<ci, ei>>
                   ELSE /\ ci' = next[1]
                        /\ ei' = next[2]
                        /\ pc' = IF next[1] > Len(CategoryOrder) THEN "summary" ELSE "ops"
                        /\ UNCHANGED error
                /\ applied' = Append(applied, AppliedLabel(key, name))
  /\ pageMarkers' = {}
  /\ UNCHANGED <<command, continueOnError, config, tryOutcome, outcome>>
  /\ UNCHANGED <<connection, session, browser, page, launched, openBrowsers,
                 closeLog, mgrLog>>
  /\ UNCHANGED otherVars

\* one try/catch block around one automation call of the block for `key`
ApplyOperation(key) ==
  /\ pc = "ops"
  /\ ci <= Len(CategoryOrder)
  /\ CategoryOrder[ci] = key
  /\ HasOp(config, ci, ei)
  /\ LET name == EntryName(config, ci, ei)
         n == Len(attempted) + 1
         next == SkipTo(config, ci, ei + 1)
     IN \/ \* the automation resolves
           /\ attempted' = Append(attempted, [key |-> key, index |-> ei, name |-> name,
                                              error |-> NoError])
           /\ applied' = Append(applied, AppliedLabel(key, name))
           /\ ci' = next[1]
           /\ ei' = next[2]
           /\ pc' = IF next[1] > Len(CategoryOrder) THEN "summary" ELSE "ops"
           /\ UNCHANGED <<failed, error>>
        \/ \* the automation rejects
           LET e == OperationError(n, OperationErrorMessage(key))
           IN   /\ attempted' = Append(attempted, [key |-> key, index |-> ei,
                                                   name |-> name, error |-> e])
                /\ failed' = Append(failed, FailedPrefix(key, name) \o ": " \o ErrorMessage(e))
                /\ IF ShouldRethrow(continueOnError)
                   THEN /\ error' = e
                        /\ pc' = "catch"
                        /\ UNCHANGED <<ci, ei>>
                   ELSE /\ ci' = next[1]
                        /\ ei' = next[2]
                        /\ pc' = IF next[1] > Len(CategoryOrder) THEN "summary" ELSE "ops"
                        /\ UNCHANGED error
                /\ UNCHANGED applied
  /\ pageMarkers' = {}
  /\ UNCHANGED <<command, continueOnError, config, tryOutcome, outcome>>
  /\ UNCHANGED <<connection, session, browser, page, launched, openBrowsers,
                 closeLog, mgrLog>>
  /\ UNCHANGED otherVars

\* the TypeError a for..of statement raises on a value without an iterator
IterationError(key) ==
  [origin |-> "iteration", at |-> 0, message |-> "config." \o key \o " is not iterable"]

\* for (const entry of config.<key>) on a value that is not a list: the
\* statement is outside the per-operation try, the outer catch gets the error
IterateNonList ==
  /\ pc = "ops"
  /\ ci <= Len(CategoryOrder)
  /\ NotIterable(config, ci)
  /\ error' = IterationError(CategoryOrder[ci])
  /\ pc' = "catch"
  /\ UNCHANGED <<command, continueOnError, config, ci, ei, applied, failed,
                 attempted, tryOutcome, outcome>>
  /\ UNCHANGED mgrVars
  /\ UNCHANGED otherVars

ApplySessionSettings == ApplyOperation("sessionSettings")

ApplySharingSettings == ApplyOperation("sharingSettings")

ApplyEinsteinActivityCapture == ApplyOperation("einsteinActivityCapture")

ApplyOmniChannel == ApplyOperation("omniChannel")

ApplyFlows == ApplyOperation("flows")

ApplyOrgWideEmails == ApplyOperation("orgWideEmails")

\* a result that always reports success
SuccessAlways(f) == TRUE

\* success: failed.length === 0
Success(f) == Len(f) = 0

\* the summary and the return statement of the try block
Summary ==
  /\ pc = "summary"
  /\ tryOutcome' = Returned([success |-> Success(failed),
                             message |-> "Applied " \o ToString(Len(applied)) \o
                                         " settings, " \o ToString(Len(failed)) \o " failed",
                             applied |-> applied, failed |-> failed])
  /\ pc' = "finally"
  /\ UNCHANGED <<command, continueOnError, config, ci, ei, applied, failed,
                 attempted, error, outcome>>
  /\ UNCHANGED mgrVars
  /\ UNCHANGED otherVars

\* the one automation call of a single-operation command
SingleOperation ==
  /\ pc = "single"
  /\ \/ /\ attempted' = Append(attempted, [key |-> command, index |-> 1, name |-> "",
                                           error |-> NoError])
        /\ tryOutcome' = Returned([success |-> TRUE, message |-> "configured successfully",
                                   applied |-> <<>>, failed |-> <<>>])
        /\ pc' = "finally"
        /\ UNCHANGED error
     \/ /\ attempted' = Append(attempted, [key |-> command, index |-> 1, name |-> "",
                                           error |-> OperationError(1, OperationErrorMessage(command))])
        /\ error' = OperationError(1, OperationErrorMessage(command))
        /\ pc' = "catch"
        /\ UNCHANGED tryOutcome
  /\ pageMarkers' = {}
  /\ UNCHANGED <<command, continueOnError, config, ci, ei, applied, failed, outcome>>
  /\ UNCHANGED <<connection, session, browser, page, launched, openBrowsers,
                 closeLog, mgrLog>>
  /\ UNCHANGED otherVars

\* text the outer catch of a command puts before the caught error's message
CatchPrefix(cmd) ==
  CASE cmd = "apply" -> "Configuration failed: "
    [] cmd = "session" -> "Failed to configure session settings: "
    [] cmd = "sharing" -> "Failed to configure sharing settings: "
    [] cmd = "flow" -> "Failed to activate Flow: "

\* an outer catch that reports without the caught error's message
CaughtErrorWithoutMessage(cmd, e) == CliError(CatchPrefix(cmd))

\* the error the outer catch raises through this.error
CaughtError(cmd, e) == CliError(CatchPrefix(cmd) \o ErrorMessage(e))

\* an outer catch that forgets what was applied before it raises
CatchRollingBack ==
  /\ pc = "catch"
  /\ tryOutcome' = Thrown(CaughtError(command, error))
  /\ pc' = "finally"
  /\ applied' = <<>>
  /\ UNCHANGED <<command, continueOnError, config, ci, ei, failed,
                 attempted, error, outcome>>
  /\ UNCHANGED mgrVars
  /\ UNCHANGED otherVars

\* the outer catch
Catch ==
  /\ pc = "catch"
  /\ tryOutcome' = Thrown(CaughtError(command, error))
  /\ pc' = "finally"
  /\ UNCHANGED <<command, continueOnError, config, ci, ei, applied, failed,
                 attempted, error, outcome>>
  /\ UNCHANGED mgrVars
  /\ UNCHANGED otherVars

\* completion of try/catch/finally when the finally block raised or not
Completion(finallyThrows, pending) ==
  IF finallyThrows THEN Thrown(CloseError) ELSE pending

\* a disconnect placed at the end of the try block instead of in finally
DisconnectAfterTryOnly ==
  /\ pc = "finally"
  /\ IF tryOutcome.kind = "return"
     THEN \E closeOk \in BOOLEAN :
            /\ MgrDisconnect(closeOk)
            /\ outcome' = Completion(DisconnectThrows(closeOk), tryOutcome)
     ELSE /\ outcome' = tryOutcome
          /\ UNCHANGED mgrVars
  /\ pc' = "done"
  /\ UNCHANGED <<command, continueOnError, config, ci, ei, applied, failed,
                 attempted, error, tryOutcome>>
  /\ UNCHANGED otherVars

\* finally { await browserManager.disconnect(); }
Finally ==
  /\ pc = "finally"
  /\ \E closeOk \in BOOLEAN :
       /\ MgrDisconnect(closeOk)
       /\ outcome' = Completion(DisconnectThrows(closeOk), tryOutcome)
  /\ pc' = "done"
  /\ UNCHANGED <<command, continueOnError, config, ci, ei, applied, failed,
                 attempted, error, tryOutcome>>
  /\ UNCHANGED otherVars

Next ==
  \/ Start
  \/ StartUnreadable
  \/ StartSingle
  \/ StartFlowWithoutAction
  \/ Connect
  \/ ApplySessionSettings
  \/ ApplySharingSettings
  \/ ApplyEinsteinActivityCapture
  \/ ApplyOmniChannel
  \/ ApplyFlows
  \/ ApplyOrgWideEmails
  \/ IterateNonList
  \/ Summary
  \/ SingleOperation
  \/ Catch
  \/ Finally

Spec == Init /\ [][Next]_vars

\* ------------------------------------------- BrowserManager on its own
\* a caller holding one BrowserManager calls connect and disconnect in any order
CallConnect ==
  /\ Len(mgrLog) < MaxCalls
  /\ \E conn \in Connections, env \in ConnectEnvs : MgrConnect(conn, env)
  /\ UNCHANGED runVars
  /\ UNCHANGED otherVars

\* BrowserManager.screenshot(page, filename): page.screenshot writes the file
MgrScreenshot(filename) == screenshots' = Append(screenshots, filename)

\* a caller holding the page of the manager asks for a screenshot; no
\* command of the plugin does
CallScreenshot ==
  /\ Len(mgrLog) < MaxCalls
  /\ page # 0
  /\ page \in openBrowsers
  /\ MgrScreenshot("error-" \o ToString(Len(screenshots) + 1) \o ".png")
  /\ mgrLog' = Append(mgrLog, [op |-> "screenshot", wasOpen |-> TRUE, closes |-> 0,
                               threw |-> FALSE])
  /\ UNCHANGED <<connection, session, browser, page, pageMarkers, launched,
                 openBrowsers, closeLog>>
  /\ UNCHANGED <<runVars, uiVars, pairVars, protoVars, deployVars>>

CallDisconnect ==
  /\ Len(mgrLog) < MaxCalls
  /\ \E closeOk \in BOOLEAN : MgrDisconnect(closeOk)
  /\ UNCHANGED runVars
  /\ UNCHANGED otherVars

NextManager == CallConnect \/ CallDisconnect \/ CallScreenshot

SpecManager == Init /\ [][NextManager]_vars

\* ------------------------------------------------------ concurrent runs
\* the run r awaits connect on the BrowserManager it constructed
RunConnect(r) ==
  /\ managers[r].pc = "connect"
  /\ \E conn \in Connections, env \in ConnectEnvs :
       LET id == NewBrowser(launched)
       IN /\ launched' = IF Launches(conn, env) THEN launched + 1 ELSE launched
          /\ openBrowsers' = IF Launches(conn, env) THEN openBrowsers \cup {id}
                             ELSE openBrowsers
          /\ managers' = [managers EXCEPT ![r] =
                            [pc |-> IF ConnectError(conn, env) = NoError THEN "ops"
                                    ELSE "finally",
                             browser |-> IF Launches(conn, env) THEN id ELSE 0,
                             page |-> IF OpensPage(conn, env) THEN id ELSE 0]]
          /\ runLog' = IF Launches(conn, env)
                       THEN Append(runLog, [run |-> r, event |-> "launch",
                                            browser |-> id, open |-> TRUE])
                       ELSE runLog
  /\ UNCHANGED <<connection, session, browser, page, pageMarkers, closeLog, mgrLog>>
  /\ UNCHANGED <<runVars, uiVars, moreVars>>

\* number of operations the run r has performed
UsesOf(r) == Cardinality({i \in 1..Len(runLog) : runLog[i].run = r /\ runLog[i].event = "use"})

\* the run r performs one operation on the page of the session it got
RunOperate(r) ==
  /\ managers[r].pc = "ops"
  /\ UsesOf(r) < MaxOps
  /\ runLog' = Append(runLog, [run |-> r, event |-> "use", browser |-> managers[r].page,
                               open |-> managers[r].page \in openBrowsers])
  /\ UNCHANGED <<managers, mgrVars>>
  /\ UNCHANGED <<runVars, uiVars, moreVars>>

\* the try block of run r ends: by its return or by an error
RunFinish(r) ==
  /\ managers[r].pc = "ops"
  /\ managers' = [managers EXCEPT ![r].pc = "finally"]
  /\ UNCHANGED <<runLog, mgrVars>>
  /\ UNCHANGED <<runVars, uiVars, moreVars>>

\* the finally block of run r: disconnect on its own BrowserManager
RunDisconnect(r) ==
  /\ managers[r].pc = "finally"
  /\ \E closeOk \in BOOLEAN :
       LET b == managers[r].browser
       IN IF HasBrowserToClose(b, managers[r].page)
          THEN /\ closeLog' = Append(closeLog, [browser |-> b, ok |-> closeOk])
               /\ runLog' = Append(runLog, [run |-> r, event |-> "close", browser |-> b,
                                            open |-> b \in openBrowsers])
               /\ openBrowsers' = IF closeOk THEN openBrowsers \ {b} ELSE openBrowsers
               /\ managers' = [managers EXCEPT ![r] =
                                 [pc |-> "done",
                                  browser |-> IF closeOk THEN BrowserAfterClose(b) ELSE b,
                                  page |-> IF closeOk THEN 0 ELSE managers[r].page]]
          ELSE /\ managers' = [managers EXCEPT ![r].pc = "done"]
               /\ UNCHANGED <<closeLog, runLog, openBrowsers>>
  /\ UNCHANGED <<connection, session, browser, page, pageMarkers, launched, mgrLog>>
  /\ UNCHANGED <<runVars, uiVars, moreVars>>

NextRuns ==
  \E r \in Runs : RunConnect(r) \/ RunOperate(r) \/ RunFinish(r) \/ RunDisconnect(r)

SpecRuns == Init /\ [][NextRuns]_vars

\* --------------------------------------------------------- SalesforceUI
\* message of puppeteer's TimeoutError for a selector that does not appear
SelectorTimeout(selector) ==
  "Waiting for selector " \o selector \o " failed: timeout exceeded"

\* a helper that clicks whatever the checkbox shows
NeedsClickAlways(isChecked, desired) == TRUE

\* if (isChecked !== checked)
NeedsClick(isChecked, desired) == isChecked # desired

\* the checked property of a checkbox after checkbox.click()
AfterClick(isChecked) == ~isChecked

\* SalesforceUI.setCheckbox(page, selector, desired) on the checkbox c;
\* `appears` says whether waitForSelector finds the checkbox in time
SetCheckbox(c, desired, appears) ==
  LET click == appears /\ NeedsClick(checked[c], desired)
  IN /\ checked' = IF click THEN [checked EXCEPT ![c] = AfterClick(@)] ELSE checked
     /\ uiLog' = Append(uiLog,
                        [call |-> "setCheckbox", selector |-> c, threw |-> ~appears,
                         info |-> [desired |-> desired, before |-> checked[c],
                                   clicks |-> IF click THEN 1 ELSE 0,
                                   after |-> checked'[c]]])

\* page.goto shows a form whose checkboxes carry the org's current settings
OpenPage ==
  /\ uiPc = "idle"
  /\ uiPc' = "page"
  /\ checked' \in [Checkboxes -> BOOLEAN]
  /\ UNCHANGED <<uiLog, uiOptions, uiError>>
  /\ UNCHANGED <<runVars, mgrVars, pairVars, moreVars>>

\* a caller of the helper on the open page
CallSetCheckbox ==
  /\ uiPc = "page"
  /\ Len(uiLog) < MaxUiCalls
  /\ \E c \in Checkboxes, desired \in BOOLEAN, appears \in BOOLEAN :
       SetCheckbox(c, desired, appears)
  /\ UNCHANGED <<uiPc, uiOptions, uiError>>
  /\ UNCHANGED <<runVars, mgrVars, pairVars, moreVars>>

NextCheckbox == OpenPage \/ CallSetCheckbox

SpecCheckbox == Init /\ [][NextCheckbox]_vars

\* texts are sequences of characters
ToastTexts == {<<>>, <<"a">>, <<"a", "b">>, <<"b", "a">>}

\* the expectedMessage argument: not given, or a text
Expectations ==
  {[given |-> FALSE, text |-> <<>>]} \cup
  {[given |-> TRUE, text |-> t] : t \in {<<>>, <<"a">>, <<"b">>, <<"a", "b">>}}

\* what the page shows while waitForToast waits: no toast in time, or a
\* toast whose textContent || '' is `text`
Toasts ==
  {[appears |-> FALSE, text |-> <<>>]} \cup {[appears |-> TRUE, text |-> t] : t \in ToastTexts}

\* a comparison that looks at the start of the text only
StartsWith(text, part) ==
  /\ Len(part) <= Len(text)
  /\ \A k \in 1..Len(part) : text[k] = part[k]

\* message.includes(expectedMessage)
Includes(text, part) ==
  \E i \in 1..(Len(text) - Len(part) + 1) :
    \A k \in 1..Len(part) : text[i + k - 1] = part[k]

\* if (expectedMessage ...): undefined and the empty string are falsy
ExpectationTruthy(expected) == expected.given /\ expected.text # <<>>

\* does waitForToast raise
ToastThrows(toast, expected) ==
  \/ ~toast.appears
  \/ ExpectationTruthy(expected) /\ ~Includes(toast.text, expected.text)

\* SalesforceUI.waitForToast(page, expectedMessage)
WaitForToast(toast, expected) ==
  uiLog' = Append(uiLog,
                  [call |-> "waitForToast", selector |-> ".toastMessage, .slds-notify__content",
                   threw |-> ToastThrows(toast, expected),
                   info |-> [toast |-> toast, expected |-> expected,
                             error |-> IF ~toast.appears THEN "TimeoutError"
                                       ELSE IF ToastThrows(toast, expected)
                                       THEN "Expected toast but got"
                                       ELSE "",
                             returned |-> IF ToastThrows(toast, expected) THEN <<>>
                                          ELSE toast.text]])

\* the three waits of waitForSetupPageLoad, in order
LoadWaits == <<".slds-spinner hidden", ".setupcontent", "network idle">>

\* a heuristic whose second wait has no catch
LoadWaitRaisesOnContent(k, timedOut) == k = 2 /\ timedOut

\* does wait k make waitForSetupPageLoad reject: .catch(() => {}) follows
\* each of the three waits
LoadWaitRaises(k, timedOut) == FALSE

\* the waits performed from wait k on when the waits time out as t says
RECURSIVE LoadWaitsFrom(_, _)
LoadWaitsFrom(t, k) ==
  IF k > Len(LoadWaits) THEN <<>>
  ELSE <<[wait |-> LoadWaits[k], timedOut |-> t[k]]>> \o
       (IF LoadWaitRaises(k, t[k]) THEN <<>> ELSE LoadWaitsFrom(t, k + 1))

LoadThrows(t) == \E k \in 1..Len(LoadWaits) : LoadWaitRaises(k, t[k])

\* BrowserManager.waitForSetupPageLoad(page)
WaitForSetupPageLoad(t) ==
  uiLog' = Append(uiLog,
                  [call |-> "waitForSetupPageLoad", selector |-> "",
                   threw |-> LoadThrows(t),
                   info |-> [timeouts |-> t, waits |-> LoadWaitsFrom(t, 1)]])

CallWaitForToast ==
  /\ Len(uiLog) < MaxUiCalls
  /\ \E toast \in Toasts, expected \in Expectations : WaitForToast(toast, expected)
  /\ UNCHANGED <<checked, uiPc, uiOptions, uiError>>
  /\ UNCHANGED <<runVars, mgrVars, pairVars, moreVars>>

CallWaitForSetupPageLoad ==
  /\ Len(uiLog) < MaxUiCalls
  /\ \E t \in [1..Len(LoadWaits) -> BOOLEAN] : WaitForSetupPageLoad(t)
  /\ UNCHANGED <<checked, uiPc, uiOptions, uiError>>
  /\ UNCHANGED <<runVars, mgrVars, pairVars, moreVars>>

NextWaits == CallWaitForToast \/ CallWaitForSetupPageLoad

SpecWaits == Init /\ [][NextWaits]_vars

\* --------------------------------- SetupAutomations.configureSessionSettings
\* the option fields in the order the method looks at them
SessionFields ==
  <<"sessionTimeout", "forceLogoutOnSessionTimeout", "lockSessionsToIp",
    "requireHttpOnly", "requireSecureConnections">>

\* the checkbox each boolean field is written to
FieldCheckbox(field) ==
  CASE field = "forceLogoutOnSessionTimeout" -> "forceLogout"
    [] field = "lockSessionsToIp" -> "lockIp"
    [] field = "requireHttpOnly" -> "httpOnly"
    [] field = "requireSecureConnections" -> "secureConnections"

\* options objects that provide every field
FullSessionOptions ==
  [sessionTimeout : {60}, forceLogoutOnSessionTimeout : BOOLEAN,
   lockSessionsToIp : BOOLEAN, requireHttpOnly : BOOLEAN,
   requireSecureConnections : BOOLEAN, enableCspOnEmail : BOOLEAN]

\* the fields of the options parameter's type: the five the method looks at
\* and enableCspOnEmail, which it declares and never reads
AcceptedSessionFields ==
  {SessionFields[k] : k \in 1..Len(SessionFields)} \cup {"enableCspOnEmail"}

\* every options object: any subset of the fields, each with a value
SessionOptions ==
  {[f \in given |-> full[f]] :
     full \in FullSessionOptions,
     given \in SUBSET AcceptedSessionFields}

\* options.<field> !== undefined
Provided(options, field) == field \in DOMAIN options

\* the step after field number k: the next provided field, else the Save click
RECURSIVE StepAfter(_, _)
StepAfter(options, k) ==
  IF k >= Len(SessionFields) THEN "save"
  ELSE IF Provided(options, SessionFields[k + 1]) THEN SessionFields[k + 1]
  ELSE StepAfter(options, k + 1)

FieldNumber(field) == CHOOSE k \in 1..Len(SessionFields) : SessionFields[k] = field

\* a step of the method that neither rejects nor changes the page
Entry(call, selector, threw) ==
  [call |-> call, selector |-> selector, threw |-> threw, info |-> <<>>]

\* the selector clickButton waits for
ButtonSelector(label) == "button:has-text(" \o label \o ")"

\* the method is called: apply.ts:122, session.ts:86
SessionBegin ==
  /\ uiPc = "idle"
  /\ \E o \in SessionOptions : uiOptions' = o
  /\ uiPc' = "goto"
  /\ UNCHANGED <<checked, uiLog, uiError>>
  /\ UNCHANGED <<runVars, mgrVars, pairVars, moreVars>>

\* navigateToSetup: await page.goto(setupUrl, { waitUntil: 'networkidle2' }),
\* which rejects when the network does not settle within the timeout
SessionGoto ==
  /\ uiPc = "goto"
  /\ \E timedOut \in BOOLEAN :
       /\ uiLog' = Append(uiLog, Entry("goto", "", timedOut))
       /\ IF timedOut
          THEN /\ uiPc' = "rejected"
               /\ uiError' = "Navigation timeout exceeded"
               /\ UNCHANGED checked
          ELSE /\ uiPc' = "load"
               /\ checked' \in [Checkboxes -> BOOLEAN]
               /\ UNCHANGED uiError
  /\ UNCHANGED uiOptions
  /\ UNCHANGED <<runVars, mgrVars, pairVars, moreVars>>

\* navigateToSetup: await this.waitForSetupPageLoad(page)
SessionLoad ==
  /\ uiPc = "load"
  /\ \E t \in [1..Len(LoadWaits) -> BOOLEAN] :
       /\ WaitForSetupPageLoad(t)
       /\ uiPc' = IF LoadThrows(t) THEN "rejected" ELSE "edit"
       /\ uiError' = IF LoadThrows(t) THEN "TimeoutError" ELSE uiError
  /\ UNCHANGED <<checked, uiOptions>>
  /\ UNCHANGED <<runVars, mgrVars, pairVars, moreVars>>

\* SalesforceUI.clickButton(setupPage, label) at step `at`, then step `then`
ClickButton(at, label, then) ==
  /\ uiPc = at
  /\ \E appears \in BOOLEAN :
       /\ uiLog' = Append(uiLog, Entry("clickButton", ButtonSelector(label), ~appears))
       /\ uiPc' = IF appears THEN then ELSE "rejected"
       /\ uiError' = IF appears THEN uiError ELSE SelectorTimeout(ButtonSelector(label))
  /\ UNCHANGED <<checked, uiOptions>>
  /\ UNCHANGED <<runVars, mgrVars, pairVars, moreVars>>

SessionEdit == ClickButton("edit", "Edit", "settle")

\* does a timeout of the wait after the Edit click end the method: the
\* awaited promise has no catch
SettleRaises(timedOut) == timedOut

\* await page.waitForNetworkIdle({ idleTime: 500 })
SessionSettle ==
  /\ uiPc = "settle"
  /\ \E timedOut \in BOOLEAN :
       /\ uiLog' = Append(uiLog, Entry("waitForNetworkIdle", "", timedOut))
       /\ uiPc' = IF SettleRaises(timedOut) THEN "rejected" ELSE StepAfter(uiOptions, 0)
       /\ uiError' = IF SettleRaises(timedOut) THEN "TimeoutError" ELSE uiError
  /\ UNCHANGED <<checked, uiOptions>>
  /\ UNCHANGED <<runVars, mgrVars, pairVars, moreVars>>

\* SalesforceUI.selectOption(setupPage, 'select[id*="timeout"]', value)
SessionSelectTimeout ==
  /\ uiPc = "sessionTimeout"
  /\ \E appears \in BOOLEAN :
       /\ uiLog' = Append(uiLog,
                          [call |-> "selectOption", selector |-> "select[id*=timeout]",
                           threw |-> ~appears,
                           info |-> [value |-> ToString(uiOptions["sessionTimeout"])]])
       /\ uiPc' = IF appears THEN StepAfter(uiOptions, 1) ELSE "rejected"
       /\ uiError' = IF appears THEN uiError ELSE SelectorTimeout("select[id*=timeout]")
  /\ UNCHANGED <<checked, uiOptions>>
  /\ UNCHANGED <<runVars, mgrVars, pairVars, moreVars>>

\* SalesforceUI.setCheckbox(setupPage, selector, options.<field>) for one of
\* the four boolean fields
SessionSetCheckbox ==
  /\ uiPc \in {SessionFields[k] : k \in 2..Len(SessionFields)}
  /\ \E appears \in BOOLEAN :
       /\ SetCheckbox(FieldCheckbox(uiPc), uiOptions[uiPc], appears)
       /\ uiPc' = IF appears THEN StepAfter(uiOptions, FieldNumber(uiPc)) ELSE "rejected"
       /\ uiError' = IF appears THEN uiError ELSE SelectorTimeout(FieldCheckbox(uiPc))
  /\ UNCHANGED uiOptions
  /\ UNCHANGED <<runVars, mgrVars, pairVars, moreVars>>

SessionSave == ClickButton("save", "Save", "toast")

\* await SalesforceUI.waitForToast(setupPage): the last step
SessionToast ==
  /\ uiPc = "toast"
  /\ \E toast \in Toasts :
       LET expected == [given |-> FALSE, text |-> <<>>]
       IN /\ WaitForToast(toast, expected)
          /\ uiPc' = IF ToastThrows(toast, expected) THEN "rejected" ELSE "resolved"
          /\ uiError' = IF ToastThrows(toast, expected)
                        THEN SelectorTimeout(".toastMessage, .slds-notify__content")
                        ELSE uiError
  /\ UNCHANGED <<checked, uiOptions>>
  /\ UNCHANGED <<runVars, mgrVars, pairVars, moreVars>>

NextSession ==
  \/ SessionBegin
  \/ SessionGoto
  \/ SessionLoad
  \/ SessionEdit
  \/ SessionSettle
  \/ SessionSelectTimeout
  \/ SessionSetCheckbox
  \/ SessionSave
  \/ SessionToast

SpecSession == Init /\ [][NextSession]_vars

\* ------------------------------- the other methods of SetupAutomations
\* access levels of the sharing options (two of the levels the type lists)
AccessLevels == {"Private", "Public Read Only"}

\* one awaited call of a method: the helper, its selector, the text it
\* types or selects and the state it wants a checkbox in
Step(call, selector, text, desired) ==
  [call |-> call, selector |-> selector, text |-> text, desired |-> desired]

\* BrowserManager.navigateToSetup: page.goto, then waitForSetupPageLoad
NavigateToSetup ==
  <<Step("goto", "", "", FALSE), Step("waitForSetupPageLoad", "", "", FALSE)>>

NetworkIdleStep == Step("waitForNetworkIdle", "", "", FALSE)

ButtonStep(label) == Step("clickButton", ButtonSelector(label), label, FALSE)

CheckboxStep(selector, desired) == Step("setCheckbox", selector, "", desired)

ToastStep == Step("waitForToast", ".toastMessage, .slds-notify__content", "", FALSE)

\* if (options.<field> !== undefined) setCheckbox(selector, options.<field>)
OptionalCheckbox(options, field, selector) ==
  IF Provided(options, field) THEN <<CheckboxStep(selector, options[field])>> ELSE <<>>

\* if (options.enabled) around the sub-options of a feature
SubOptionsApply(options) == options.enabled

\* SetupAutomations.configureEinsteinActivityCapture
EinsteinOptions ==
  {[f \in {"enabled"} \cup given |-> full[f]] :
     full \in [enabled : BOOLEAN, captureEmails : BOOLEAN, captureEvents : BOOLEAN],
     given \in SUBSET {"captureEmails", "captureEvents"}}

EinsteinSteps(options) ==
  NavigateToSetup \o <<CheckboxStep("activityCapture", options.enabled)>> \o
  (IF SubOptionsApply(options)
   THEN OptionalCheckbox(options, "captureEmails", "emailCapture") \o
        OptionalCheckbox(options, "captureEvents", "eventCapture")
   ELSE <<>>) \o
  <<ButtonStep("Save"), ToastStep>>

\* SetupAutomations.configureOmniChannel
OmniOptions ==
  {[f \in {"enabled"} \cup given |-> full[f]] :
     full \in [enabled : BOOLEAN, enableSkillBasedRouting : BOOLEAN,
               enableExternalRouting : BOOLEAN],
     given \in SUBSET {"enableSkillBasedRouting", "enableExternalRouting"}}

OmniSteps(options) ==
  NavigateToSetup \o <<CheckboxStep("enableOmni", options.enabled)>> \o
  (IF SubOptionsApply(options)
   THEN OptionalCheckbox(options, "enableSkillBasedRouting", "skillBased") \o
        OptionalCheckbox(options, "enableExternalRouting", "externalRouting")
   ELSE <<>>) \o
  <<ButtonStep("Save"), ToastStep>>

\* SetupAutomations.configureOrgWideEmailAddress
EmailOptions ==
  [displayName : {"A"}, emailAddress : {"a@example.com"}, allowAllProfiles : BOOLEAN]

\* if (options.allowAllProfiles) setCheckbox(selector, true)
AllowAllSteps(options) ==
  IF options.allowAllProfiles THEN <<CheckboxStep("allowAll", TRUE)>> ELSE <<>>

EmailSteps(options) ==
  NavigateToSetup \o
  <<ButtonStep("Add"), NetworkIdleStep,
    Step("setInput", "displayName", options.displayName, FALSE),
    Step("setInput", "emailAddress", options.emailAddress, FALSE)>> \o
  AllowAllSteps(options) \o
  <<ButtonStep("Save"), ToastStep>>

\* SetupAutomations.configureOrgWideDefaults
SharingOptions ==
  {[f \in {"objectName", "internalAccess"} \cup given |-> full[f]] :
     full \in [objectName : {"A"}, internalAccess : AccessLevels,
               externalAccess : AccessLevels, grantAccessUsingHierarchies : BOOLEAN],
     given \in SUBSET {"externalAccess", "grantAccessUsingHierarchies"}}

RowSelector(name) == "tr:has-text(" \o name \o ")"

\* a method that never writes the external access
ExternalAccessNeverSet(options) == <<>>

\* if (options.externalAccess) selectOption(...)
ExternalAccessSteps(options) ==
  IF Provided(options, "externalAccess") /\ options.externalAccess # ""
  THEN <<Step("selectOption", "externalAccess", options.externalAccess, FALSE)>>
  ELSE <<>>

SharingSteps(options) ==
  NavigateToSetup \o
  <<Step("waitForSelector", RowSelector(options.objectName), "", FALSE),
    Step("clickIfFound", "a:has-text(Edit)", "", FALSE),
    NetworkIdleStep,
    Step("selectOption", "internalAccess", options.internalAccess, FALSE)>> \o
  ExternalAccessSteps(options) \o
  OptionalCheckbox(options, "grantAccessUsingHierarchies", "hierarchy") \o
  <<ButtonStep("Save"), ToastStep>>

\* the flags of ui config sharing: --external is optional, --no-hierarchy is
\* a boolean flag whose default is false
SharingArguments == SUBSET {"--external", "--no-hierarchy"}

SharingFlags(argv) ==
  [f \in {"object", "internal", "no-hierarchy"} \cup
         (IF "--external" \in argv THEN {"external"} ELSE {}) |->
     CASE f = "object" -> "A"
       [] f = "internal" -> "Public Read Only"
       [] f = "external" -> "Public Read Only"
       [] f = "no-hierarchy" -> "--no-hierarchy" \in argv]

\* grantAccessUsingHierarchies: !flags['no-hierarchy']
HierarchyOption(flags) == [grantAccessUsingHierarchies |-> ~flags["no-hierarchy"]]

\* the options object ui config sharing passes to configureOrgWideDefaults
SharingCommandOptions(flags) ==
  LET hierarchy == HierarchyOption(flags)
      fields == {"objectName", "internalAccess"} \cup
                (IF Provided(flags, "external") THEN {"externalAccess"} ELSE {}) \cup
                DOMAIN hierarchy
  IN [f \in fields |->
        CASE f = "objectName" -> flags["object"]
          [] f = "internalAccess" -> flags["internal"]
          [] f = "externalAccess" -> flags["external"]
          [] f = "grantAccessUsingHierarchies" -> hierarchy[f]]

\* SetupAutomations.activateFlow
FlowOptions == [flowApiName : {"A"}, activate : BOOLEAN]

ActionLabel(activate) == IF activate THEN "Activate" ELSE "Deactivate"

ConfirmSelector == "button:has-text(Confirm), button:has-text(OK)"

FlowSteps(options) ==
  NavigateToSetup \o
  <<Step("waitForNetworkIdle", "", "", FALSE),
    Step("waitForSelector", "input[placeholder*=Search]", options.flowApiName, FALSE),
    Step("press", "Enter", "", FALSE),
    NetworkIdleStep,
    Step("waitForSelector", RowSelector(options.flowApiName), "", FALSE),
    Step("clickIfFound", "button[class*=rowActions]", "", FALSE),
    Step("click", "a:has-text(" \o ActionLabel(options.activate) \o ")", "", FALSE),
    Step("clickIfPresent", ConfirmSelector, "", FALSE),
    ToastStep>>

\* the checkboxes and the text controls of the page a method works on
PageBoxes(kind) ==
  CASE kind = "einsteinActivityCapture" -> {"activityCapture", "emailCapture", "eventCapture"}
    [] kind = "omniChannel" -> {"enableOmni", "skillBased", "externalRouting"}
    [] kind = "orgWideEmails" -> {"allowAll"}
    [] kind = "sharingSettings" -> {"hierarchy"}
    [] OTHER -> {}

PageInputs(kind) ==
  CASE kind = "orgWideEmails" -> {"displayName", "emailAddress"}
    [] kind = "sharingSettings" -> {"internalAccess", "externalAccess"}
    [] OTHER -> {}

\* the sharing settings as the form of the sharing page holds them
SharingOfForm(b, s) ==
  [internal |-> s["internalAccess"], external |-> s["externalAccess"],
   hierarchy |-> b["hierarchy"]]

\* what the methods and the loop around them leave alone
runFrame == <<pc, command, continueOnError, config, ci, ei, attempted, error,
              tryOutcome, outcome>>

protoFrame == <<runFrame, mgrVars, pairVars, shotVars, deployVars, checked>>

\* the method of kind `kind` is called with `options` by the caller `via`
Begin(kind, via, argv, options, program) ==
  /\ uiPc = "idle"
  /\ automation' = [kind |-> kind, via |-> via, argv |-> argv]
  /\ uiOptions' = options
  /\ steps' = program
  /\ uiPc' = "running"
  /\ uiLog' = <<>>
  /\ uiError' = ""
  /\ dialog' = "none"
  /\ UNCHANGED <<boxes, inputs, org, finished, applied, failed>>
  /\ UNCHANGED protoFrame

BeginEinstein ==
  /\ finished = <<>>
  /\ \E o \in EinsteinOptions :
       Begin("einsteinActivityCapture", "apply", {}, o, EinsteinSteps(o))

BeginOmni ==
  /\ finished = <<>>
  /\ \E o \in OmniOptions : Begin("omniChannel", "apply", {}, o, OmniSteps(o))

BeginEmail ==
  /\ finished = <<>>
  /\ \E o \in EmailOptions : Begin("orgWideEmails", "apply", {}, o, EmailSteps(o))

BeginFlow ==
  /\ finished = <<>>
  /\ \E o \in FlowOptions : Begin("flows", "apply", {}, o, FlowSteps(o))

\* an entry of the sharingSettings list of a batch (apply.ts:138-141): the
\* loop reaches it unless the catch block of an earlier entry re-threw
BeginSharing ==
  /\ Len(finished) < MaxEntries
  /\ \A i \in 1..Len(finished) :
       /\ finished[i].kind = "sharingSettings"
       /\ finished[i].threw => ~ShouldRethrow(continueOnError)
  /\ \E o \in SharingOptions : Begin("sharingSettings", "apply", {}, o, SharingSteps(o))

\* ui config sharing: sharing.ts:77-82
BeginSharingCommand ==
  /\ finished = <<>>
  /\ \E argv \in SharingArguments :
       LET o == SharingCommandOptions(SharingFlags(argv))
       IN Begin("sharingSettings", "command", argv, o, SharingSteps(o))

\* the step the method is at
AtStep(call) == uiPc = "running" /\ steps # <<>> /\ Head(steps).call = call

\* the awaited call returned (threw = FALSE) or rejected with `message`
Completes(appeared, threw, message) ==
  /\ uiLog' = Append(uiLog,
                     [call |-> Head(steps).call, selector |-> Head(steps).selector,
                      threw |-> threw,
                      info |-> [appeared |-> appeared, text |-> Head(steps).text,
                                desired |-> Head(steps).desired]])
  /\ steps' = IF threw THEN steps ELSE Tail(steps)
  /\ uiPc' = IF threw THEN "rejected"
             ELSE IF Tail(steps) = <<>> THEN "resolved" ELSE "running"
  /\ uiError' = IF threw THEN message ELSE uiError

\* await page.goto(setupUrl, { waitUntil: 'networkidle2' }): the page shows
\* the org's settings
StepGoto ==
  /\ AtStep("goto")
  /\ \E timedOut \in BOOLEAN :
       /\ Completes(~timedOut, timedOut, "Navigation timeout exceeded")
       /\ IF timedOut THEN UNCHANGED <<boxes, inputs>>
          ELSE IF automation.kind = "sharingSettings"
          THEN /\ boxes' = [c \in PageBoxes(automation.kind) |-> org.hierarchy]
               /\ inputs' = [c \in PageInputs(automation.kind) |->
                               IF c = "internalAccess" THEN org.internal ELSE org.external]
          ELSE /\ boxes' \in [PageBoxes(automation.kind) -> BOOLEAN]
               /\ inputs' = [c \in PageInputs(automation.kind) |-> ""]
  /\ UNCHANGED <<automation, uiOptions, org, dialog, finished, applied, failed>>
  /\ UNCHANGED protoFrame

\* await this.waitForSetupPageLoad(page): none of its waits rejects
StepPageLoad ==
  /\ AtStep("waitForSetupPageLoad")
  /\ \E timedOut \in BOOLEAN :
       Completes(~timedOut, \E k \in 1..Len(LoadWaits) : LoadWaitRaises(k, timedOut),
                 "TimeoutError")
  /\ UNCHANGED <<automation, uiOptions, boxes, inputs, org, dialog, finished, applied, failed>>
  /\ UNCHANGED protoFrame

\* await page.waitForNetworkIdle({ idleTime }): no catch
StepNetworkIdle ==
  /\ AtStep("waitForNetworkIdle")
  /\ \E timedOut \in BOOLEAN : Completes(~timedOut, SettleRaises(timedOut), "TimeoutError")
  /\ UNCHANGED <<automation, uiOptions, boxes, inputs, org, dialog, finished, applied, failed>>
  /\ UNCHANGED protoFrame

\* SalesforceUI.clickButton: Save on the sharing form stores the form
StepClickButton ==
  /\ AtStep("clickButton")
  /\ \E appears \in BOOLEAN :
       /\ Completes(appears, ~appears, SelectorTimeout(Head(steps).selector))
       /\ org' = IF appears /\ automation.kind = "sharingSettings"
                    /\ Head(steps).text = "Save"
                 THEN SharingOfForm(boxes, inputs) ELSE org
  /\ UNCHANGED <<automation, uiOptions, boxes, inputs, dialog, finished, applied, failed>>
  /\ UNCHANGED protoFrame

\* SalesforceUI.setCheckbox
StepSetCheckbox ==
  /\ AtStep("setCheckbox")
  /\ \E appears \in BOOLEAN :
       LET c == Head(steps).selector
       IN /\ Completes(appears, ~appears, SelectorTimeout(c))
          /\ boxes' = IF appears /\ NeedsClick(boxes[c], Head(steps).desired)
                      THEN [boxes EXCEPT ![c] = AfterClick(@)] ELSE boxes
  /\ UNCHANGED <<automation, uiOptions, inputs, org, dialog, finished, applied, failed>>
  /\ UNCHANGED protoFrame

\* SalesforceUI.selectOption and SalesforceUI.setInput: waitForSelector,
\* then the control takes the value
StepSetValue ==
  /\ AtStep("selectOption") \/ AtStep("setInput")
  /\ \E appears \in BOOLEAN :
       LET c == Head(steps).selector
       IN /\ Completes(appears, ~appears, SelectorTimeout(c))
          /\ inputs' = IF appears THEN [inputs EXCEPT ![c] = Head(steps).text] ELSE inputs
  /\ UNCHANGED <<automation, uiOptions, boxes, org, dialog, finished, applied, failed>>
  /\ UNCHANGED protoFrame

\* await page.waitForSelector(selector): rejects when nothing appears
StepWaitForSelector ==
  /\ AtStep("waitForSelector")
  /\ \E appears \in BOOLEAN :
       Completes(appears, ~appears, SelectorTimeout(Head(steps).selector))
  /\ UNCHANGED <<automation, uiOptions, boxes, inputs, org, dialog, finished, applied, failed>>
  /\ UNCHANGED protoFrame

\* await page.keyboard.press('Enter')
StepPress ==
  /\ AtStep("press")
  /\ Completes(TRUE, FALSE, "")
  /\ UNCHANGED <<automation, uiOptions, boxes, inputs, org, dialog, finished, applied, failed>>
  /\ UNCHANGED protoFrame

\* does a missing element end the method: (editLink as HTMLElement)?.click()
\* and dropdown?.click() skip the click when the lookup found nothing
MissingElementRaises(found) == FALSE

\* the Edit link of the object's row; the action menu of the flow's row
StepClickIfFound ==
  /\ AtStep("clickIfFound")
  /\ \E found \in BOOLEAN :
       Completes(found, MissingElementRaises(found),
                 SelectorTimeout(Head(steps).selector))
  /\ UNCHANGED <<automation, uiOptions, boxes, inputs, org, dialog, finished, applied, failed>>
  /\ UNCHANGED protoFrame

\* what the page does after the Activate/Deactivate click: it changes the
\* flow at once, or it asks for a confirmation, at once or later
AfterActionClick == {"none", "pending", "shown"}

\* await page.click(selector): rejects when no element matches
StepClick ==
  /\ AtStep("click")
  /\ \E found \in BOOLEAN :
       /\ Completes(found, ~found, "No element found for selector: " \o Head(steps).selector)
       /\ IF found THEN dialog' \in AfterActionClick ELSE UNCHANGED dialog
  /\ UNCHANGED <<automation, uiOptions, boxes, inputs, org, finished, applied, failed>>
  /\ UNCHANGED protoFrame

\* the page renders the confirmation it owes
ShowDialog ==
  /\ uiPc = "running"
  /\ dialog = "pending"
  /\ dialog' = "shown"
  /\ UNCHANGED <<automation, steps, uiPc, uiLog, uiError, uiOptions, boxes, inputs, org,
                 finished, applied, failed>>
  /\ UNCHANGED protoFrame

\* const confirmBtn = await page.$(...): what the page shows at this moment
ConfirmFound(d) == d = "shown"

\* if (confirmBtn) await confirmBtn.click()
StepClickIfPresent ==
  /\ AtStep("clickIfPresent")
  /\ Completes(ConfirmFound(dialog), FALSE, "")
  /\ dialog' = IF ConfirmFound(dialog) THEN "confirmed" ELSE dialog
  /\ UNCHANGED <<automation, uiOptions, boxes, inputs, org, finished, applied, failed>>
  /\ UNCHANGED protoFrame

\* SalesforceUI.waitForToast(page): the toast of a flow does not arrive
\* while a confirmation is outstanding
StepToast ==
  /\ AtStep("waitForToast")
  /\ \E toast \in Toasts :
       /\ toast.appears => dialog \in {"none", "confirmed"}
       /\ Completes(toast.appears, ToastThrows(toast, [given |-> FALSE, text |-> <<>>]),
                    SelectorTimeout(Head(steps).selector))
  /\ UNCHANGED <<automation, uiOptions, boxes, inputs, org, dialog, finished, applied, failed>>
  /\ UNCHANGED protoFrame

\* the entry of the batch is over: apply.ts pushes its label to applied, or
\* its message to failed (138-151 for sharing, 156-220 for the others)
Finished == [kind |-> automation.kind, options |-> uiOptions,
             threw |-> uiPc = "rejected", org |-> org]

ReturnToBatch ==
  /\ uiPc \in {"resolved", "rejected"}
  /\ automation.via = "apply"
  /\ LET name == IF automation.kind = "sharingSettings" THEN uiOptions.objectName
                 ELSE IF automation.kind = "flows" THEN uiOptions.flowApiName
                 ELSE IF automation.kind = "orgWideEmails" THEN uiOptions.displayName
                 ELSE ""
     IN IF uiPc = "resolved"
        THEN /\ applied' = Append(applied, AppliedLabel(automation.kind, name))
             /\ UNCHANGED failed
        ELSE /\ failed' = Append(failed, FailedPrefix(automation.kind, name) \o ": " \o uiError)
             /\ UNCHANGED applied
  /\ finished' = Append(finished, Finished)
  /\ uiPc' = "idle"
  /\ automation' = NoAutomation
  /\ steps' = <<>>
  /\ uiLog' = <<>>
  /\ uiError' = ""
  /\ uiOptions' = NoOptions
  /\ boxes' = [c \in {} |-> FALSE]
  /\ inputs' = [c \in {} |-> ""]
  /\ dialog' = "none"
  /\ UNCHANGED org
  /\ UNCHANGED protoFrame

NextAutomations ==
  \/ BeginEinstein
  \/ BeginOmni
  \/ BeginEmail
  \/ BeginFlow
  \/ BeginSharing
  \/ BeginSharingCommand
  \/ StepGoto
  \/ StepPageLoad
  \/ StepNetworkIdle
  \/ StepClickButton
  \/ StepSetCheckbox
  \/ StepSetValue
  \/ StepWaitForSelector
  \/ StepPress
  \/ StepClickIfFound
  \/ StepClick
  \/ ShowDialog
  \/ StepClickIfPresent
  \/ StepToast
  \/ ReturnToBatch

SpecAutomations == Init /\ [][NextAutomations]_vars

\* ------------------------------------------- deploy.ts: runSfdxCommand
\* what execSync leaves in stdout and stderr of the error it raises: the
\* property is missing, empty, or a text
Stdouts ==
  {Undefined, "", "not json", "null", "{}", "{\"message\":\"\"}",
   "{\"message\":\"Deploy failed\"}"}

Stderrs == {Undefined, "", "ERROR running sf"}

\* what one execSync call does: it returns the output of the command, or
\* raises an error carrying stdout, stderr and a message
ExecResults ==
  [failed : {FALSE}, stdout : {"{\"status\":0}"}, stderr : {Undefined},
   message : {""}] \cup
  [failed : {TRUE}, stdout : Stdouts, stderr : Stderrs,
   message : {"Command failed: sf project deploy start"}]

\* JSON.parse(text): the value of the texts above, or a SyntaxError
JsonParse(text) ==
  CASE text = "null" -> [ok |-> TRUE, isNull |-> TRUE, fields |-> {}, message |-> ""]
    [] text = "{}" -> [ok |-> TRUE, isNull |-> FALSE, fields |-> {}, message |-> ""]
    [] text = "{\"message\":\"\"}" ->
         [ok |-> TRUE, isNull |-> FALSE, fields |-> {"message"}, message |-> ""]
    [] text = "{\"message\":\"Deploy failed\"}" ->
         [ok |-> TRUE, isNull |-> FALSE, fields |-> {"message"},
          message |-> "Deploy failed"]
    [] text = "{\"status\":0}" ->
         [ok |-> TRUE, isNull |-> FALSE, fields |-> {"status"}, message |-> ""]
    [] OTHER -> [ok |-> FALSE, isNull |-> FALSE, fields |-> {}, message |-> ""]

\* the inner try block: JSON.parse(execError.stdout), then
\* if (parsed.message) throw new Error(parsed.message)
InnerTry(stdout) ==
  LET parsed == JsonParse(stdout)
  IN IF ~parsed.ok THEN [kind |-> "throw", message |-> "SyntaxError: Unexpected token"]
     ELSE IF parsed.isNull
     THEN [kind |-> "throw", message |-> "TypeError: Cannot read properties of null"]
     ELSE IF "message" \in parsed.fields /\ ~Falsy(parsed.message)
     THEN [kind |-> "throw", message |-> parsed.message]
     ELSE [kind |-> "normal", message |-> ""]

\* the catch clause of the inner try: it has no binding and an empty body,
\* so whatever the block threw ends there
InnerCatch(completion) == [kind |-> "normal", message |-> ""]

\* runSfdxCommand(command) when execSync does `exec`
RunSfdxCommand(exec) ==
  IF ~exec.failed THEN [kind |-> "return", value |-> exec.stdout, message |-> ""]
  ELSE LET inner == IF Falsy(exec.stdout) THEN [kind |-> "normal", message |-> ""]
                    ELSE IF InnerTry(exec.stdout).kind = "throw"
                    THEN InnerCatch(InnerTry(exec.stdout))
                    ELSE InnerTry(exec.stdout)
       IN IF inner.kind = "throw"
          THEN [kind |-> "throw", value |-> "", message |-> inner.message]
          ELSE [kind |-> "throw", value |-> "",
                message |-> IF Falsy(exec.stderr) THEN exec.message ELSE exec.stderr]

\* the script runs one sf command: deploy.ts:95, 252, 277
CallRunSfdxCommand ==
  /\ Len(sfdxLog) < MaxExecs
  /\ \E exec \in ExecResults :
       sfdxLog' = Append(sfdxLog, [exec |-> exec, outcome |-> RunSfdxCommand(exec)])
  /\ UNCHANGED <<runVars, mgrVars, uiVars, pairVars, shotVars, protoVars>>

NextDeploy == CallRunSfdxCommand

SpecDeploy == Init /\ [][NextDeploy]_vars
\* ------------------------------------------------------------ properties
\* the category order the specification fixes
SpecifiedOrder ==
  <<"sessionSettings", "sharingSettings", "einsteinActivityCapture",
    "omniChannel", "flows", "orgWideEmails">>

\* the operations of one section, in document order
OpsOf(key, section) ==
  IF section.shape = "list"
  THEN [i \in 1..Len(section.items) |-> [key |-> key, index |-> i, name |-> section.items[i]]]
  ELSE IF section.shape = "object" THEN <<[key |-> key, index |-> 1, name |-> ""]>>
  ELSE <<>>

RECURSIVE PlanFrom(_, _)
PlanFrom(doc, k) ==
  IF k > Len(SpecifiedOrder) THEN <<>>
  ELSE OpsOf(SpecifiedOrder[k], Section(doc, SpecifiedOrder[k])) \o PlanFrom(doc, k + 1)

\* the operations of a batch in the specified order
Plan(doc) == PlanFrom(doc, 1)

\* the calls captured so far, without their outcome
Calls == [i \in 1..Len(attempted) |->
            [key |-> attempted[i].key, index |-> attempted[i].index, name |-> attempted[i].name]]

AttemptsOf(key, index) ==
  Cardinality({i \in 1..Len(attempted) :
                 attempted[i].key = key /\ attempted[i].index = index})

Failures == {i \in 1..Len(attempted) : attempted[i].error # NoError}

Connected == session # NoSession

PastOperations == pc \in {"summary", "finally", "done"}

\* the document has the structure of a batch: every list section holds a
\* list and every single-object section an object
WellFormed(doc) ==
  \A i \in 1..Len(doc) :
    doc[i].shape = (IF doc[i].key \in ListKeys THEN "list" ELSE "object")

\* C1: in continue mode a batch (a well-formed document) whose run got its
\* session attempts every operation of the document exactly once, however
\* many of them fail: the number of calls equals one per present
\* single-object section plus the length of each list section.
C1_EveryOperationAttemptedOnce ==
  (command = "apply" /\ continueOnError /\ Connected /\ WellFormed(config)
     /\ PastOperations) =>
    /\ Len(attempted) = TotalOps(config)
    /\ \A s \in 1..Len(config) :
         \A k \in 1..OpsOfSection([shape |-> config[s].shape, items |-> config[s].items]) :
           AttemptsOf(config[s].key, k) = 1

\* a finished continue-mode run in which the first operation failed, a later
\* one succeeded and another one failed again
C1_Witness ==
  /\ command = "apply" /\ continueOnError /\ pc = "done"
  /\ Len(attempted) >= 3
  /\ attempted[1].error # NoError
  /\ Len(applied) >= 1
  /\ Len(failed) >= 2

\* C2: in abort mode the first failure ends the batch: the failing call is
\* the last call made, every call before it succeeded, the calls are the
\* first k operations of the plan, applied holds exactly the labels of the
\* k - 1 operations before the failing one, and the run ends by raising.
C2_AbortAtFirstFailure ==
  (command = "apply" /\ ~continueOnError /\ failed # <<>>) =>
    LET k == Len(attempted)
    IN /\ pc \in {"catch", "finally", "done"}
       /\ k >= 1
       /\ Failures = {k}
       /\ Calls = SubSeq(Plan(config), 1, k)
       /\ applied = [i \in 1..(k - 1) |-> AppliedLabel(Plan(config)[i].key, Plan(config)[i].name)]
       /\ Len(failed) = 1
       /\ (pc \in {"finally", "done"} => tryOutcome.kind = "throw")
       /\ (pc = "done" => outcome.kind = "throw")

\* session settings applied, flow A failed, flow B never attempted
C2_Witness ==
  /\ command = "apply" /\ ~continueOnError /\ pc = "done"
  /\ Section(config, "flows").items = <<"A", "B">>
  /\ applied = <<"Session Settings">>
  /\ Len(attempted) = 2
  /\ attempted[2].key = "flows" /\ attempted[2].name = "A"
  /\ outcome.kind = "throw"

\* C3: in continue mode no failure of an operation of a batch (a well-formed
\* document) makes the run raise:
\* the outer catch is never entered once the session exists, the try block
\* completes by returning a result that carries the failed list (one entry
\* per failed call) and the applied list, and an error that nevertheless
\* reaches the caller does not stem from an operation.
C3_ContinueNeverRaises ==
  (command = "apply" /\ continueOnError /\ Connected /\ WellFormed(config)) =>
    /\ pc # "catch"
    /\ error = NoError
    /\ (pc \in {"finally", "done"} =>
          /\ tryOutcome.kind = "return"
          /\ tryOutcome.result.failed = failed
          /\ tryOutcome.result.applied = applied
          /\ Len(tryOutcome.result.failed) = Cardinality(Failures))
    /\ (pc = "done" /\ outcome.kind = "throw" => outcome.error.origin = "close")
    /\ (pc = "done" /\ outcome.kind # "throw" => outcome = tryOutcome)

\* every operation of a batch of at least two failed and the run returned
C3_Witness ==
  /\ command = "apply" /\ continueOnError /\ pc = "done"
  /\ outcome.kind = "return"
  /\ outcome.result.applied = <<>>
  /\ Len(outcome.result.failed) >= 2
  /\ Len(outcome.result.failed) = TotalOps(config)
\* the error of the last call made
LastCallError == attempted[Len(attempted)].error

AbortedByOperation == command = "apply" /\ ~continueOnError /\ failed # <<>>

\* C4 as stated: in abort mode the error the caller of run() receives is the
\* very error the failing operation raised.
C4_UnderlyingErrorReachesCaller ==
  (AbortedByOperation /\ pc = "done") =>
    /\ outcome.kind = "throw"
    /\ outcome.error = LastCallError

\* C4 amended: in abort mode the failing operation's error is re-thrown
\* unchanged from the per-operation catch to the outer catch only; the outer
\* catch raises a new error whose message is "Configuration failed: "
\* followed by the underlying error's message, and the caller receives that
\* new error, or the error of browser.close() when disconnect raises in the
\* finally block.
C4_WrappedErrorReachesCaller ==
  (AbortedByOperation /\ pc \in {"catch", "finally", "done"}) =>
    /\ error = LastCallError
    /\ error.origin = "operation"
    /\ (pc \in {"finally", "done"} =>
          /\ tryOutcome.kind = "throw"
          /\ tryOutcome.error.origin = "cli"
          /\ tryOutcome.error # LastCallError
          /\ tryOutcome.error.message = "Configuration failed: " \o LastCallError.message)
    /\ (pc = "done" =>
          /\ outcome.kind = "throw"
          /\ outcome.error \in {tryOutcome.error, CloseError}
          /\ (outcome.error = CloseError <=> ~closeLog[Len(closeLog)].ok))

\* an aborted run whose caller received the error of the outer catch
C4_Witness ==
  /\ AbortedByOperation /\ pc = "done"
  /\ Len(attempted) >= 2
  /\ outcome.kind = "throw"
  /\ outcome.error.origin = "cli"
  /\ outcome.error.message = "Configuration failed: " \o LastCallError.message

\* C5: whatever the layout of the document, the calls made so far are a
\* prefix of the plan: categories in the specified order, entries of a list
\* category in document order, absent categories passed over; a run that
\* reaches the summary without aborting has made exactly the plan's calls.
C5_FixedCategoryOrder ==
  command = "apply" =>
    /\ Len(Calls) <= Len(Plan(config))
    /\ Calls = SubSeq(Plan(config), 1, Len(Calls))
    /\ (pc = "summary" => Calls = Plan(config))

\* a document listing flows before sharingSettings, run to the summary: both
\* sharing entries in document order first, then the flow
C5_Witness ==
  /\ command = "apply" /\ pc = "summary"
  /\ Len(config) = 2
  /\ config[1].key = "flows" /\ config[2].key = "sharingSettings"
  /\ Len(attempted) = 3
  /\ attempted[1].key = "sharingSettings" /\ attempted[1].name = "B"
  /\ attempted[2].key = "sharingSettings" /\ attempted[2].name = "A"
  /\ attempted[3].key = "flows"

CallsOf(op) == {i \in 1..Len(mgrLog) : mgrLog[i].op = op}

\* C6: a run of the batch command that got as far as calling connect calls
\* disconnect exactly once, at its end, whatever the outcome; disconnect is
\* never called before the run's try/catch has completed.
C6_DisconnectExactlyOnce ==
  command = "apply" =>
    /\ Cardinality(CallsOf("disconnect")) <= 1
    /\ (pc # "done" => CallsOf("disconnect") = {})
    /\ (pc = "done" /\ CallsOf("connect") # {} => Cardinality(CallsOf("disconnect")) = 1)

\* connect itself failed after launching the browser, and disconnect ran
C6_Witness ==
  /\ command = "apply" /\ pc = "done"
  /\ ~Connected /\ launched = 1
  /\ Cardinality(CallsOf("disconnect")) = 1
  /\ tryOutcome.kind = "throw"

CloseCallsOn(b) == {i \in 1..Len(closeLog) : closeLog[i].browser = b}

\* C7: when a run of any command ends, browser.close() has been called on
\* every browser the run launched, and no browser of the run is open unless
\* that close call itself rejected.
C7_BrowserReleasedOnEveryExit ==
  pc = "done" =>
    /\ \A b \in 1..launched : CloseCallsOn(b) # {}
    /\ ((\A i \in 1..Len(closeLog) : closeLog[i].ok) => openBrowsers = {})

\* newPage failed after the launch: the browser was still released
C7_Witness ==
  /\ pc = "done" /\ ~Connected
  /\ launched = 1 /\ page = 0
  /\ mgrLog[1].op = "connect" /\ mgrLog[1].threw
  /\ Len(closeLog) = 1 /\ closeLog[1].ok
  /\ openBrowsers = {}

\* C8 as stated: a failure to close the browser never changes what the
\* caller gets: the completion of the try/catch statement is the completion
\* of run().
C8_CloseFailureNeverPropagates ==
  (pc = "done" /\ tryOutcome.kind # "none") => outcome = tryOutcome

OkCloses == {i \in 1..Len(closeLog) : closeLog[i].ok}

\* C9: a disconnect called while no browser is open (never opened, or
\* already closed) calls no browser.close() and does not raise; with one
\* connect on the manager, a browser is closed at most once however many
\* disconnect calls follow, and exactly once as soon as one of them has
\* returned normally after the launch.
C9_DisconnectIdempotent ==
  /\ \A i \in CallsOf("disconnect") :
       ~mgrLog[i].wasOpen => (mgrLog[i].closes = 0 /\ ~mgrLog[i].threw)
  /\ (Cardinality(CallsOf("connect")) <= 1 => Cardinality(OkCloses) <= 1)
  /\ (/\ Cardinality(CallsOf("connect")) = 1
      /\ \E i \in CallsOf("disconnect") : mgrLog[i].wasOpen /\ ~mgrLog[i].threw)
     => (Cardinality(OkCloses) = 1 /\ openBrowsers = {} /\ browser = 0)

\* disconnect before any connect, then a connect that returned a session,
\* then two disconnect calls: one close in all
C9_Witness ==
  /\ Len(mgrLog) = 4
  /\ mgrLog[1].op = "disconnect" /\ mgrLog[2].op = "connect" /\ ~mgrLog[2].threw
  /\ mgrLog[3].op = "disconnect" /\ mgrLog[4].op = "disconnect"
  /\ Len(closeLog) = 1 /\ closeLog[1].ok
  /\ mgrLog[4].closes = 0 /\ ~mgrLog[4].threw

ConnectRaised == \E i \in CallsOf("connect") : mgrLog[i].threw

\* C10: an operation is attempted only after connect returned a session; a
\* run whose connect raised attempts nothing and leaves applied and failed
\* empty; and connect returns a session only when instanceUrl and
\* accessToken are both present and the page it landed on shows a
\* post-login marker.
C10_AuthenticationFailureIsFatal ==
  /\ (attempted # <<>> => (Connected /\ ~ConnectRaised))
  /\ (ConnectRaised => (attempted = <<>> /\ applied = <<>> /\ failed = <<>> /\ ~Connected))
  /\ ((pc \in {"ops", "single", "summary"} /\ attempted = <<>>) =>
        /\ connection.instanceUrl \notin {Undefined, ""}
        /\ connection.accessToken \notin {Undefined, ""}
        /\ pageMarkers # {})
  /\ (pc \in {"ops", "single", "summary"} => Connected)

\* credentials present, no marker on the landing page: the batch, which
\* holds operations, ended without attempting any
C10_Witness ==
  /\ command = "apply" /\ pc = "done"
  /\ connection = [instanceUrl |-> Url, accessToken |-> Token]
  /\ error.message = "Failed to authenticate to Salesforce"
  /\ TotalOps(config) >= 2
  /\ attempted = <<>> /\ applied = <<>> /\ failed = <<>>
  /\ outcome.kind = "throw"

\* a document whose structure is not that of a batch and whose run is under way
MalformedRun == command = "apply" /\ ~WellFormed(config) /\ pc # "start"

\* C11: a run on a document that fails structural validation (a list
\* section holding a value that is not a list) ends by raising before any
\* operation is attempted: no automation call is made and nothing is
\* recorded as applied or failed.
C11_MalformedDocumentAbortsBeforeAnyOperation ==
  MalformedRun =>
    /\ attempted = <<>>
    /\ applied = <<>>
    /\ failed = <<>>
    /\ (pc = "done" => outcome.kind = "throw")

\* position in `failed` of the entry pushed for the failed call number i
FailureRank(i) == Cardinality({j \in Failures : j <= i})

\* C12 as stated: the failure entry of an operation is the label the same
\* operation gets in `applied`, followed by ": " and the error's message.
C12_FailedTaggedWithAppliedLabel ==
  command = "apply" =>
    \A i \in Failures :
      failed[FailureRank(i)] =
        AppliedLabel(attempted[i].key, attempted[i].name) \o ": " \o attempted[i].error.message

\* the tag of a failure entry: the applied label for the single-object
\* kinds, the kind and the entry's name without a colon for the list kinds
FailureTag(key, name) ==
  IF key \in SingleKeys THEN AppliedLabel(key, name)
  ELSE IF key = "sharingSettings" THEN "Sharing " \o name
  ELSE IF key = "flows" THEN "Flow " \o name
  ELSE "Org-Wide Email " \o name

\* C12 amended: every failed call has one entry in `failed`, in call order,
\* made of its failure tag, ": " and the error's message; the tag equals the
\* applied label for Session Settings, Einstein Activity Capture and
\* Omni-Channel only, and for sharing, flow and org-wide email entries it is
\* the applied label without its colon.
C12_FailedTaggedWithFailureTag ==
  command = "apply" =>
    /\ Len(failed) = Cardinality(Failures)
    /\ \A i \in Failures :
         /\ failed[FailureRank(i)] =
              FailureTag(attempted[i].key, attempted[i].name) \o ": " \o attempted[i].error.message
         /\ (attempted[i].key \in ListKeys =>
               FailureTag(attempted[i].key, attempted[i].name)
                 # AppliedLabel(attempted[i].key, attempted[i].name))

\* sharing entry A applied and sharing entry B failed in the same run
C12_Witness ==
  /\ command = "apply" /\ pc = "done"
  /\ applied = <<"Sharing: A">>
  /\ failed = <<"Sharing B: Waiting for selector tr:has-text(objectName) failed: timeout exceeded">>

Succeeded(call) == call.error = NoError

Failed(call) == call.error # NoError

\* the label of a succeeded operation as the result lists it
SuccessLabel(call) ==
  IF call.key = "sessionSettings" THEN "Session Settings"
  ELSE IF call.key = "sharingSettings" THEN "Sharing: " \o call.name
  ELSE IF call.key = "einsteinActivityCapture" THEN "Einstein Activity Capture"
  ELSE IF call.key = "omniChannel" THEN "Omni-Channel"
  ELSE IF call.key = "flows" THEN "Flow: " \o call.name
  ELSE "Org-Wide Email: " \o call.name

\* the entry of a failed operation as the result lists it
FailureEntry(call) == FailureTag(call.key, call.name) \o ": " \o call.error.message

\* C13: in continue mode the two lists say what happened, in execution
\* order: `applied` is the labels of the calls that succeeded, `failed` the
\* "<tag>: <message>" entries of the calls that failed, every call is in
\* exactly one of the two lists, and the result the run returns carries both
\* lists with success false exactly when a call failed.
C13_ListsReflectExecution ==
  (command = "apply" /\ continueOnError) =>
    LET ok == SelectSeq(attempted, Succeeded)
        ko == SelectSeq(attempted, Failed)
    IN /\ applied = [i \in 1..Len(ok) |-> SuccessLabel(ok[i])]
       /\ failed = [i \in 1..Len(ko) |-> FailureEntry(ko[i])]
       /\ Len(applied) + Len(failed) = Len(attempted)
       /\ (tryOutcome.kind = "return" =>
             /\ tryOutcome.result.applied = applied
             /\ tryOutcome.result.failed = failed
             /\ tryOutcome.result.success = (Failures = {}))

\* scenario A: session settings and flow A applied, flow B failed, the run
\* returned its result
C13_Witness ==
  /\ command = "apply" /\ continueOnError /\ pc = "done"
  /\ Len(config) = 2
  /\ Section(config, "flows").items = <<"A", "B">>
  /\ outcome.kind = "return"
  /\ outcome.result.applied = <<"Session Settings", "Flow: A">>
  /\ outcome.result.failed =
       <<"Flow B: Waiting for selector input[placeholder*=Search] failed: timeout exceeded">>
  /\ outcome.result.success = FALSE

\* what happened in the run, from the captured calls
WhatHappened ==
  IF Failures = {} THEN "total success"
  ELSE IF \E i \in 1..Len(attempted) : Succeeded(attempted[i]) THEN "partial failure"
  ELSE "total failure"

\* what a reader of the result alone concludes
ReadFrom(result) ==
  IF result.success THEN "total success"
  ELSE IF result.applied # <<>> THEN "partial failure"
  ELSE "total failure"

\* C14: every result a batch run produces has success true exactly when its
\* failed list is empty, and the result alone tells total success, partial
\* failure and total failure apart.
C14_SuccessIffNoFailure ==
  (command = "apply" /\ tryOutcome.kind = "return") =>
    /\ tryOutcome.result.success = (tryOutcome.result.failed = <<>>)
    /\ ReadFrom(tryOutcome.result) = WhatHappened
    /\ (outcome.kind = "return" => outcome.result = tryOutcome.result)

\* a returned result of a run with one applied and two failed operations
C14_Witness ==
  /\ command = "apply" /\ pc = "finally"
  /\ tryOutcome.kind = "return"
  /\ Len(tryOutcome.result.applied) = 1
  /\ Len(tryOutcome.result.failed) = 2
  /\ ~tryOutcome.result.success

\* does sequence t extend sequence s by appending
Extends(t, s) == Len(t) >= Len(s) /\ SubSeq(t, 1, Len(s)) = s

\* no operation of the document is called twice
NoRepeatedCall(calls) ==
  \A i, j \in 1..Len(calls) :
    i # j => <<calls[i].key, calls[i].index>> # <<calls[j].key, calls[j].index>>

\* C15: nothing is rolled back: in every step of a batch run, whether a
\* later operation fails, the run aborts or the browser is released,
\* `applied` changes by appending only, the captured calls change by
\* appending only and never hold a second call for an operation (no
\* compensating call), and a step that records a failure leaves `applied`
\* as it was.
C15_AppliedNeverRolledBack ==
  [][command = "apply" =>
       /\ Extends(applied', applied)
       /\ Extends(attempted', attempted)
       /\ NoRepeatedCall(attempted')
       /\ (failed' # failed => applied' = applied)]_vars

\* an aborted run that ended by raising after two operations were applied
\* and the third failed
C15_Witness ==
  /\ command = "apply" /\ ~continueOnError /\ pc = "done"
  /\ outcome.kind = "throw"
  /\ Len(applied) = 2
  /\ Len(failed) = 1
  /\ Len(attempted) = 3

\* the setCheckbox calls that found their checkbox
CheckboxCalls == {i \in 1..Len(uiLog) : uiLog[i].call = "setCheckbox" /\ ~uiLog[i].threw}

SameRequest(i, j) ==
  /\ uiLog[i].selector = uiLog[j].selector
  /\ uiLog[i].info.desired = uiLog[j].info.desired

\* C16: setCheckbox clicks the checkbox only when its checked state differs
\* from the desired one, so after each call the state is the desired one;
\* of two consecutive calls on the same checkbox with the same desired value
\* the second never clicks, which makes at most one click in total.
C16_SetCheckboxIdempotent ==
  /\ \A i \in CheckboxCalls :
       /\ uiLog[i].info.clicks = (IF uiLog[i].info.before # uiLog[i].info.desired THEN 1 ELSE 0)
       /\ uiLog[i].info.after = uiLog[i].info.desired
  /\ \A i \in CheckboxCalls :
       (i + 1 \in CheckboxCalls /\ SameRequest(i, i + 1)) =>
         /\ uiLog[i + 1].info.clicks = 0
         /\ uiLog[i].info.clicks + uiLog[i + 1].info.clicks <= 1
  /\ (Len(uiLog) \in CheckboxCalls =>
        checked[uiLog[Len(uiLog)].selector] = uiLog[Len(uiLog)].info.desired)

\* lockIp was unchecked; two calls asked for checked: the first clicked, the
\* second did not
C16_Witness ==
  /\ Len(uiLog) = 2
  /\ CheckboxCalls = {1, 2}
  /\ uiLog[1].selector = "lockIp" /\ SameRequest(1, 2)
  /\ uiLog[1].info.desired /\ ~uiLog[1].info.before
  /\ uiLog[1].info.clicks = 1 /\ uiLog[2].info.clicks = 0
  /\ checked["lockIp"]

\* the waitForToast calls during which a toast appeared
ToastCalls == {i \in 1..Len(uiLog) : uiLog[i].call = "waitForToast" /\ uiLog[i].info.toast.appears}

\* text holds part as a contiguous piece
Contains(text, part) ==
  \E i \in 0..Len(text), j \in 0..Len(text) : i <= j /\ SubSeq(text, i + 1, j) = part

\* C17: when a toast appears, waitForToast called without an expected
\* substring returns the toast's text whatever it is, non-empty texts
\* included; called with an expected substring it raises when the text does
\* not contain the substring and returns the text when it does.
C17_WaitForToastContract ==
  \A i \in ToastCalls :
    LET r == uiLog[i].info
    IN /\ (~r.expected.given => ~uiLog[i].threw /\ r.returned = r.toast.text)
       /\ ((r.expected.given /\ ~Contains(r.toast.text, r.expected.text)) =>
             uiLog[i].threw /\ r.error = "Expected toast but got")
       /\ ((r.expected.given /\ Contains(r.toast.text, r.expected.text)) =>
             ~uiLog[i].threw /\ r.returned = r.toast.text)

\* a call expecting "a" returned the toast text "ba", then a call expecting
\* "b" raised on the toast text "a"
C17_Witness ==
  /\ ToastCalls = {1, 2}
  /\ uiLog[1].info.expected = [given |-> TRUE, text |-> <<"a">>]
  /\ uiLog[1].info.toast.text = <<"b", "a">>
  /\ ~uiLog[1].threw /\ uiLog[1].info.returned = <<"b", "a">>
  /\ uiLog[2].info.expected = [given |-> TRUE, text |-> <<"b">>]
  /\ uiLog[2].info.toast.text = <<"a">>
  /\ uiLog[2].threw

LoadCalls == {i \in 1..Len(uiLog) : uiLog[i].call = "waitForSetupPageLoad"}

\* C18: whichever of the three waits of the load-completion heuristic time
\* out, the heuristic completes without raising and has performed all three
\* waits in order: spinner hidden, content marker, network idle.
C18_LoadWaitsAllTolerant ==
  \A i \in LoadCalls :
    LET r == uiLog[i].info
    IN /\ ~uiLog[i].threw
       /\ Len(r.waits) = 3
       /\ r.waits[1].wait = ".slds-spinner hidden"
       /\ r.waits[2].wait = ".setupcontent"
       /\ r.waits[3].wait = "network idle"
       /\ \A k \in 1..3 : r.waits[k].timedOut = r.timeouts[k]

\* a call in which all three waits timed out, after one in which only the
\* first did
C18_Witness ==
  /\ LoadCalls = {1, 2}
  /\ uiLog[1].info.timeouts = <<TRUE, FALSE, FALSE>>
  /\ uiLog[2].info.timeouts = <<TRUE, TRUE, TRUE>>
  /\ Len(uiLog[2].info.waits) = 3
  /\ ~uiLog[2].threw

\* the steps that wait for a required control or for the toast
ControlCalls == {"clickButton", "selectOption", "setCheckbox", "waitForToast"}

\* every control the method waited for so far appeared
EveryControlAppeared ==
  \A i \in 1..Len(uiLog) : uiLog[i].call \in ControlCalls => ~uiLog[i].threw

\* C19: configureSessionSettings never rejects because of a soft timeout
\* alone: when every required control appeared, the method does not reject,
\* whichever of the navigation's network-idle wait, the load-completion
\* waits and the network-idle wait after the Edit click timed out, so the
\* batch records the operation as applied.
C19_SoftTimeoutNeverFailsOperation ==
  EveryControlAppeared => uiPc # "rejected"

\* the browsers run r launched
LaunchedBy(r) ==
  {runLog[i].browser : i \in {j \in 1..Len(runLog) :
                                 runLog[j].run = r /\ runLog[j].event = "launch"}}

\* C20: two concurrent runs never share a browser or a page: each run
\* launches its own browser, the browsers and pages held by the two managers
\* differ, a run operates on and closes only a browser it launched itself,
\* and the page a run operates on is open whatever the other run has
\* disconnected.
C20_RunsOwnTheirSession ==
  /\ LaunchedBy(1) \cap LaunchedBy(2) = {}
  /\ \A r \in Runs : managers[r].browser # 0 => managers[r].browser \in LaunchedBy(r)
  /\ (managers[1].browser # 0 => managers[1].browser # managers[2].browser)
  /\ (managers[1].page # 0 => managers[1].page # managers[2].page)
  /\ \A i \in 1..Len(runLog) :
       /\ runLog[i].browser \in LaunchedBy(runLog[i].run)
       /\ (runLog[i].event = "use" => runLog[i].open)

\* both runs launched their browser, run 1 disconnected, and run 2 then
\* operated on its page, still open
C20_Witness ==
  /\ Len(runLog) = 4
  /\ runLog[1] = [run |-> 1, event |-> "launch", browser |-> 1, open |-> TRUE]
  /\ runLog[2] = [run |-> 2, event |-> "launch", browser |-> 2, open |-> TRUE]
  /\ runLog[3].run = 1 /\ runLog[3].event = "close" /\ runLog[3].browser = 1
  /\ runLog[4] = [run |-> 2, event |-> "use", browser |-> 2, open |-> TRUE]
  /\ 1 \notin openBrowsers

\* C21: a run in which a configuration operation failed has taken a
\* screenshot of the page (written an error-*.png file) by the time it ends.
C21_ScreenshotOnError ==
  (pc = "done" /\ command = "apply" /\ failed # <<>>) => screenshots # <<>>
\* the control a field of the session options is written to: the selectors
\* configureSessionSettings names (none for a field it never reads)
FieldControl(field) ==
  IF field = "sessionTimeout" THEN "select[id*=timeout]"
  ELSE IF field \in {SessionFields[k] : k \in 2..Len(SessionFields)}
       THEN FieldCheckbox(field)
  ELSE ""

\* the method interacted with the control of the field
Touched(field) ==
  \E i \in 1..Len(uiLog) :
    /\ uiLog[i].call \in {"selectOption", "setCheckbox"}
    /\ FieldControl(field) # ""
    /\ uiLog[i].selector = FieldControl(field)

\* C22: when configureSessionSettings has resolved, the control of each field
\* the operation accepts was interacted with if and only if the options
\* provide that field.
C22_PartialUpdate ==
  uiPc = "resolved" =>
    \A field \in AcceptedSessionFields : Touched(field) <=> Provided(uiOptions, field)

\* the checkbox an option field of a feature method is written to
OptionControl(field) ==
  CASE field = "enabled" ->
         (IF automation.kind = "omniChannel" THEN "enableOmni" ELSE "activityCapture")
    [] field = "captureEmails" -> "emailCapture"
    [] field = "captureEvents" -> "eventCapture"
    [] field = "enableSkillBasedRouting" -> "skillBased"
    [] field = "enableExternalRouting" -> "externalRouting"
    [] field = "allowAllProfiles" -> "allowAll"

\* the boolean option fields of the three feature methods
FeatureFields ==
  {"enabled", "captureEmails", "captureEvents", "enableSkillBasedRouting",
   "enableExternalRouting", "allowAllProfiles"}

\* the method set the checkbox of the field to the value the options give
AppliedField(field) ==
  \E i \in 1..Len(uiLog) :
    /\ uiLog[i].call = "setCheckbox"
    /\ uiLog[i].selector = OptionControl(field)
    /\ uiLog[i].info.desired = uiOptions[field]

\* C23: when configureEinsteinActivityCapture, configureOmniChannel or
\* configureOrgWideEmailAddress has resolved, every boolean option the caller
\* provided was applied to its checkbox, whatever the other options say.
C23_FieldsIndependentlyApplied ==
  (uiPc = "resolved"
     /\ automation.kind \in {"einsteinActivityCapture", "omniChannel", "orgWideEmails"}) =>
    \A field \in FeatureFields \cap DOMAIN uiOptions : AppliedField(field)

\* the calls that need their control on the page
RequiredControlCalls ==
  {"clickButton", "waitForSelector", "clickIfFound", "click", "setCheckbox",
   "selectOption", "setInput", "waitForToast"}

\* C24: in every method, a step whose required control did not appear
\* rejected, is the last step the method performed, and leaves the method
\* rejected.
C24_AbsentControlFailsAtItsStep ==
  automation.kind # "" =>
    \A i \in 1..Len(uiLog) :
      (uiLog[i].call \in RequiredControlCalls /\ ~uiLog[i].info.appeared) =>
        (uiLog[i].threw /\ i = Len(uiLog) /\ uiPc = "rejected")

\* C25: while activateFlow has a confirmation on the page, its check for the
\* confirmation is still ahead: the method never waits for the toast, or
\* ends, with the confirmation shown and not confirmed.
C25_ConfirmationNeverLeftOpen ==
  (automation.kind = "flows" /\ dialog = "shown") =>
    (uiPc = "running" /\ \E k \in 1..Len(steps) : steps[k].call = "clickIfPresent")

\* two finished sharing entries that succeeded on the same object, the
\* second right after the first
Duplicates(k) ==
  /\ k \in 2..Len(finished)
  /\ ~finished[k - 1].threw /\ ~finished[k].threw
  /\ finished[k - 1].options.objectName = finished[k].options.objectName

\* C26 as stated: after two entries for the same object the settings of the
\* object are the three fields of the later entry.
C26_LaterEntryWins ==
  \A k \in 1..Len(finished) : Duplicates(k) =>
    LET later == finished[k].options
        result == finished[k].org
    IN /\ result.internal = later.internalAccess
       /\ Provided(later, "externalAccess") /\ result.external = later.externalAccess
       /\ Provided(later, "grantAccessUsingHierarchies")
       /\ result.hierarchy = later.grantAccessUsingHierarchies

\* C26: two sharing entries for the same object that both succeed are both
\* executed, each pushes its label to applied, and the later entry wins for
\* the fields it provides: the internal access is the later entry's, the
\* external access and the hierarchy setting are the later entry's when it
\* provides them and otherwise the ones the earlier entry left.
C26_LaterEntryWinsWhereProvided ==
  \A k \in 1..Len(finished) : Duplicates(k) =>
    LET later == finished[k].options
        result == finished[k].org
        earlier == finished[k - 1].org
    IN /\ Len(applied) >= k
       /\ applied[k - 1] = AppliedLabel("sharingSettings", later.objectName)
       /\ applied[k] = AppliedLabel("sharingSettings", later.objectName)
       /\ result.internal = later.internalAccess
       /\ result.external = (IF Provided(later, "externalAccess")
                             THEN later.externalAccess ELSE earlier.external)
       /\ result.hierarchy = (IF Provided(later, "grantAccessUsingHierarchies")
                              THEN later.grantAccessUsingHierarchies
                              ELSE earlier.hierarchy)

C26_Witness ==
  /\ Duplicates(2)
  /\ Provided(finished[1].options, "externalAccess")
  /\ finished[1].options.externalAccess # DefaultSharing.external
  /\ ~Provided(finished[2].options, "externalAccess")
  /\ finished[2].options.internalAccess # finished[1].options.internalAccess
  /\ org.external = finished[1].options.externalAccess
  /\ org.internal = finished[2].options.internalAccess
  /\ applied = <<"Sharing: A", "Sharing: A">>

\* C27: ui config sharing run without --no-hierarchy does not touch the
\* hierarchy checkbox.
C27_HierarchyLeftAlone ==
  (automation.via = "command" /\ "--no-hierarchy" \notin automation.argv) =>
    \A i \in 1..Len(uiLog) :
      ~(uiLog[i].call = "setCheckbox" /\ uiLog[i].selector = "hierarchy")

\* C28: at every point of a batch run the two lists account for the finished
\* calls: applied has one entry per call that resolved and failed one entry
\* per call that rejected, so together they hold exactly one entry per
\* finished call, and in abort mode failed never holds more than one entry.
C28_Accounting ==
  command = "apply" =>
    /\ Len(applied) = Cardinality({i \in 1..Len(attempted) : attempted[i].error = NoError})
    /\ Len(failed) = Cardinality(Failures)
    /\ Len(applied) + Len(failed) = Len(attempted)
    /\ (~continueOnError => Len(failed) <= 1)

\* in the middle of a run: one call resolved, one rejected, more to come
C28_Witness ==
  /\ command = "apply" /\ continueOnError /\ pc = "ops"
  /\ Len(attempted) = 2 /\ Len(applied) = 1 /\ Len(failed) = 1
  /\ TotalOps(config) = 3

\* C29: whatever connect and disconnect calls are made on one manager, at
\* most one browser it launched is open, and none is open right after a
\* disconnect that returned.
C29_NoBrowserLeftOpen ==
  /\ Cardinality(openBrowsers) <= 1
  /\ (mgrLog # <<>> /\ mgrLog[Len(mgrLog)].op = "disconnect"
        /\ ~mgrLog[Len(mgrLog)].threw) => openBrowsers = {}

\* C30: when the sf command failed and its stdout is JSON carrying a
\* message, the error runSfdxCommand throws carries that message; when
\* stdout is absent or is not JSON it carries stderr, or the message of the
\* original error when there is no stderr.
C30_JsonMessageReachesCaller ==
  \A i \in 1..Len(sfdxLog) :
    LET exec == sfdxLog[i].exec
        thrown == sfdxLog[i].outcome
        parsed == JsonParse(exec.stdout)
    IN exec.failed =>
         /\ thrown.kind = "throw"
         /\ (exec.stdout # Undefined /\ parsed.ok /\ ~parsed.isNull
               /\ "message" \in parsed.fields /\ parsed.message # "") =>
              thrown.message = parsed.message
         /\ (exec.stdout = Undefined \/ ~parsed.ok) =>
              thrown.message = (IF Falsy(exec.stderr) THEN exec.message
                                ELSE exec.stderr)

====
